---- MODULE Spec2Model ----
(***************************************************************************)
(* Model of the AuraCode FastAPI backend.                                  *)
(*                                                                         *)
(* Part 1: services/executor.py, CodeExecutor.execute and the subprocess   *)
(* runner CodeExecutor._run_subprocess.  One call of execute is followed   *)
(* from its entry to its return (or to the exception that leaves it); the  *)
(* steps are the stretches of code between two suspension points.          *)
(*                                                                         *)
(* Texts (str and decoded bytes) are sequences of tokens.  A token is      *)
(* either one character, Ch("4"), or one JSON document written by          *)
(* json.dumps / JSON.stringify, Doc(v), standing for the run of characters *)
(* that serialises the value v.  Python values are tagged records.         *)
(* Times are integer microseconds.                                         *)
(***************************************************************************)
EXTENDS Integers, Sequences, FiniteSets, TLC

\* ------------------------------------------------------------------ bounds
MaxTests == 2      \* longest test_cases list of a request

\* --------------------------------------------------------- python values
PyNone == [t |-> "none"]
PyStr(s) == [t |-> "str", s |-> s]
PyNum(kind, digits) == [t |-> kind, s |-> digits]
PyDict(output, error) == [t |-> "dict", output |-> output, error |-> error]
Missing == [t |-> "missing"]

Ch(c) == [c |-> c]
Doc(v) == [json |-> v]
IsDoc(tok) == "json" \in DOMAIN tok

\* A text made of the given characters.
Text(chars) == [i \in 1..Len(chars) |-> Ch(chars[i])]

Whitespace == {Ch(" "), Ch("\n")}
Digits == {Ch("0"), Ch("4")}

\* ------------------------------------------------------ str.strip()
RECURSIVE LStrip(_)
LStrip(s) ==
    IF s # <<>> /\ Head(s) \in Whitespace THEN LStrip(Tail(s)) ELSE s

RECURSIVE RStrip(_)
RStrip(s) ==
    IF s # <<>> /\ s[Len(s)] \in Whitespace
    THEN RStrip(SubSeq(s, 1, Len(s) - 1))
    ELSE s

Strip(s) == RStrip(LStrip(s))

\* ------------------------------------------------------ json.loads()
\* The integer part of a JSON number: "0" or a digit string without a
\* leading zero.
IsJsonInt(s) ==
    /\ s # <<>>
    /\ \A i \in 1..Len(s) : s[i] \in Digits
    /\ Len(s) > 1 => s[1] # Ch("0")

IsJsonFloat(s) ==
    \E k \in 1..Len(s) :
        /\ s[k] = Ch(".")
        /\ IsJsonInt(SubSeq(s, 1, k - 1))
        /\ k < Len(s)
        /\ \A i \in (k + 1)..Len(s) : s[i] \in Digits

\* json.loads(text): skips whitespace on both sides of exactly one JSON
\* value; anything else raises json.JSONDecodeError (ok = FALSE).
JsonLoads(text) ==
    LET s == Strip(text) IN
    IF Len(s) = 1 /\ IsDoc(s[1]) THEN [ok |-> TRUE, v |-> s[1].json]
    ELSE IF IsJsonInt(s) THEN [ok |-> TRUE, v |-> PyNum("int", s)]
    ELSE IF IsJsonFloat(s) THEN [ok |-> TRUE, v |-> PyNum("float", s)]
    ELSE [ok |-> FALSE]

\* dict.get(key, default) on the parsed harness result.
DictGet(d, key, default) ==
    LET v == IF key = "output" THEN d.output ELSE d.error IN
    IF v = Missing THEN default ELSE v

\* ------------------------------------------------------ bytes.decode()
\* bytes.decode('utf-8', errors='replace'): a byte that is no UTF-8 becomes
\* U+FFFD, everything else is kept.
DecodeTok(tok) == IF tok = Ch("xFF") THEN Ch("uFFFD") ELSE tok
Decode(bytes) == [i \in 1..Len(bytes) |-> DecodeTok(bytes[i])]

\* ------------------------------------------------ LANGUAGE_CONFIGS
LANGUAGE_CONFIGS ==
    [python     |-> [executable |-> "python3", extension |-> ".py"],
     javascript |-> [executable |-> "node",    extension |-> ".js"],
     typescript |-> [executable |-> "ts-node", extension |-> ".ts"]]

\* The languages a request may name (models.CodeExecutionRequest.language);
\* "java" stands for the ones without a configuration.
RequestLanguages == {"python", "typescript", "java"}

DefaultTimeLimitMs == 5000
\* The requests followed name a limit other than the default.
TimeLimits == {1}

\* ------------------------------------------------------- message texts
NoGetMessage(v) == Text(<<"'", v.t, "' object has no attribute 'get'">>)
ParseFailedMessage == Text(<<"Failed to parse output">>)
TimeoutMessage_Default(timeout_ms) ==
    Text(<<"Execution timeout (", ToString(DefaultTimeLimitMs), "ms)">>)
TimeoutMessage(timeout_ms) ==
    Text(<<"Execution timeout (", ToString(timeout_ms), "ms)">>)
UnsupportedMessage_Generic(lang) == Text(<<"Unsupported language">>)
UnsupportedMessage(lang) == Text(<<"Unsupported language: ", lang>>)
OSErrorMessage(what) == Text(<<"[Errno] ", what>>)

\* An exception object: its class and str(e).
Exc(cls, msg) == [cls |-> cls, msg |-> msg]
NoExc == [cls |-> "none"]
\* The classes caught by `except Exception`; asyncio.CancelledError derives
\* from BaseException only.
ExceptionClasses == {"OSError", "TimeoutError", "AttributeError"}

\* ------------------------------------------------------- the inputs
\* What a child process can write.  The harness prints one JSON line; user
\* code may end the process before the harness prints.
HarnessOk(out) == Doc(PyDict(PyStr(Text(out)), PyNone))
HarnessErr == Doc(PyDict(PyStr(<<>>), PyStr(Text(<<"e">>))))
NL == Ch("\n")

StdoutSet ==
    { <<>>,
      <<HarnessOk(<<" ", "4">>), NL>>,
      <<HarnessErr, NL>>,
      <<Ch("4"), NL>>,
      <<Ch("x"), NL>> }

StderrSet == { <<>>, <<Ch("xFF"), NL>> }

ExpectedSet == { Text(<<"4", "\n">>), Text(<<"x">>) }

\* Measured run times in microseconds.
RunTimes == {500, 1500}

TestCase(input, expected) == [input |-> input, expected_output |-> expected]

RECURSIVE SeqsUpTo(_, _)
SeqsUpTo(S, n) ==
    IF n = 0 THEN {<<>>}
    ELSE LET shorter == SeqsUpTo(S, n - 1) IN
         shorter \cup {Append(q, x) : q \in shorter, x \in S}

TestCaseLists ==
    SeqsUpTo({TestCase(Text(<<"i">>), e) : e \in ExpectedSet}, MaxTests)

Requests ==
    [code : {Text(<<"c">>)}, language : RequestLanguages,
     test_cases : TestCaseLists, time_limit_ms : TimeLimits]

\* ------------------------------------------------------- the state
VARIABLES
    pc,                    \* where the call of execute stands
    request,               \* the arguments of execute
    wrapped_code,          \* execute: wrapped_code
    test_results,          \* execute: test_results
    total_execution_time,  \* execute: total_execution_time, microseconds
    response,              \* the CodeExecutionResponse returned, or NoResponse
    raised,                \* the exception that left execute, or NoExc
    fs,                    \* the temporary files on disk: (name, content) pairs
    f,                     \* _run_subprocess: the open NamedTemporaryFile
    temp_file,             \* _run_subprocess: temp_file
    tmp_count,             \* temporary files created so far (names are unique)
    children,              \* child processes spawned, in order
    stdout,                \* bytes the running child wrote to its stdout pipe
    stderr,                \* bytes the running child wrote to its stderr pipe
    history                \* per finished test case: what happened to it

\* services/gemini_utils.py, the retry wrappers.  Both wrappers are fed the
\* same operation outcomes; the fields are indexed by the wrapper.
VARIABLES
    op_outcomes,           \* what the k-th call of the wrapped operation does
    retry_pc,              \* where the wrapper call stands
    retry_attempt,         \* wrapper: attempt
    retry_last_exc,        \* wrapper: last_exc
    retry_calls,           \* calls of the wrapped operation made so far
    retry_slept,           \* the delays passed to sleep, in order
    retry_result           \* what the wrapper call returned or raised

\* services/gemini_utils.py, the response cache and its callers (threads).
VARIABLES
    _cache,                \* the dict, as its items in iteration order
    _cache_lock,           \* "free", or the thread that holds the lock
    now,                   \* time.time(), seconds
    cache_pc,              \* where each thread's cache call stands
    cache_frame,           \* each thread's arguments and locals
    cache_done,            \* each thread's last finished call, as observed
    cache_written,         \* per key: the last cache_put still in force
    seq_cache,             \* the dict after the finished calls, run one by one
    cache_calls            \* cache calls started so far

\* services/gemini_utils.py, the cooldown guard and its callers (threads).
VARIABLES
    _cooldown,             \* the dict, as its (key, last) records
    _cooldown_lock,        \* "free", or the thread that holds the lock
    cooldown_clock,        \* time.time(), seconds
    cooldown_pc,           \* where each thread's check_cooldown call stands
    cooldown_frame,        \* each thread's arguments and locals
    cooldown_done,         \* each thread's last finished call, as observed
    cooldown_admitted,     \* the calls that returned True, in order
    cooldown_calls         \* check_cooldown calls started so far

\* services/evaluator.py and services/pair_programmer.py: the callers of
\* the retry wrappers and of the response cache.
VARIABLES
    caller_pc,             \* where the call of evaluate stands
    caller_frame,          \* its locals
    caller_done,           \* the last finished call, as observed
    caller_calls           \* calls of evaluate and analyze_next_step so far

\* services/pair_programmer.py: one call of start_session and its consumer.
VARIABLES
    session_pc,            \* where the generator stands
    session_frame,         \* its locals: attempt, full_response, last_exc
    session_stream,        \* the items the consumer has received, in order
    session_log            \* the sleeps, the requests and the chunks so far

executorVars ==
    <<pc, request, wrapped_code, test_results, total_execution_time,
      response, raised, fs, f, temp_file, tmp_count, children, stdout,
      stderr, history>>

retryVars ==
    <<op_outcomes, retry_pc, retry_attempt, retry_last_exc, retry_calls,
      retry_slept, retry_result>>

cacheVars ==
    <<_cache, _cache_lock, now, cache_pc, cache_frame, cache_done,
      cache_written, seq_cache, cache_calls>>

cooldownVars ==
    <<_cooldown, _cooldown_lock, cooldown_clock, cooldown_pc, cooldown_frame,
      cooldown_done, cooldown_admitted, cooldown_calls>>

callerVars == <<caller_pc, caller_frame, caller_done, caller_calls>>

sessionVars == <<session_pc, session_frame, session_stream, session_log>>

vars ==
    <<executorVars, retryVars, cacheVars, cooldownVars, callerVars,
      sessionVars>>

outsideExecutor ==
    <<retryVars, cacheVars, cooldownVars, callerVars, sessionVars>>
outsideRetry ==
    <<executorVars, cacheVars, cooldownVars, callerVars, sessionVars>>
outsideCache ==
    <<executorVars, retryVars, cooldownVars, callerVars, sessionVars>>
outsideCooldown ==
    <<executorVars, retryVars, cacheVars, callerVars, sessionVars>>
outsideSession ==
    <<executorVars, retryVars, cacheVars, cooldownVars, callerVars>>

Wrappers == {"sync", "async"}
NoResult == [how |-> "none"]

\* No wrapper call has been made.
RetryIdle ==
    /\ op_outcomes = <<>>
    /\ retry_pc = [w \in Wrappers |-> "idle"]
    /\ retry_attempt = [w \in Wrappers |-> 0]
    /\ retry_last_exc = [w \in Wrappers |-> PyNone]
    /\ retry_calls = [w \in Wrappers |-> 0]
    /\ retry_slept = [w \in Wrappers |-> <<>>]
    /\ retry_result = [w \in Wrappers |-> NoResult]

\* ------------------------------------------------------ the response cache
CACHE_TTL == 90
CACHE_MAX == 300

Threads == {"t1", "t2"}

\* A prompt: which text it is, and len(prompt).
Prompt(id, len) == [id |-> id, len |-> len]

\* The prompts of the earlier calls that filled the cache: FillerPrompt(1)
\* was cached first.
FillerPrompt(i) == Prompt(i, 1)

\* The prompts of the calls followed here: one cached before, one new.
Prompts == {FillerPrompt(2), Prompt(CACHE_MAX + 1, 2)}
Models == {"", "m"}
Replies == {"X"}

\* hashlib.sha1(prompt.encode()).hexdigest()[:12], taken as free of
\* collisions on the prompts considered.
Sha1Hex12(prompt) == [sha1 |-> prompt.id]

\* Lines 90-93: f"{model}:{digest}:{len(prompt)}".  The digest has 12
\* characters and the length is a digit string, so the three parts can be
\* read back from the string.
_prompt_key(prompt, model) ==
    [model |-> model, digest |-> Sha1Hex12(prompt), len |-> prompt.len]

CacheKeys == {_prompt_key(prompt, model) : prompt \in Prompts, model \in Models}

NoKey == [model |-> "", digest |-> [sha1 |-> 0], len |-> 0]
NoFrame ==
    [op |-> "none", key |-> NoKey, text |-> "", entry |-> PyNone,
     before |-> <<>>]
NoDone == [op |-> "none"]
NoWrite == [text |-> "", at |-> 0, live |-> FALSE]

\* No cache call has been made and the cache is empty.
CacheIdle ==
    /\ _cache = <<>>
    /\ _cache_lock = "free"
    /\ now = 0
    /\ cache_pc = [t \in Threads |-> "idle"]
    /\ cache_frame = [t \in Threads |-> NoFrame]
    /\ cache_done = [t \in Threads |-> NoDone]
    /\ cache_written = [k \in CacheKeys |-> NoWrite]
    /\ seq_cache = <<>>
    /\ cache_calls = 0

\* ------------------------------------------------------ the cooldown guard
NoCheck == [key |-> "", min_gap |-> 0, now |-> 0, last |-> 0]
NoVerdict == [op |-> "none"]

\* No check_cooldown call has been made.
CooldownIdle ==
    /\ _cooldown = {}
    /\ _cooldown_lock = "free"
    /\ cooldown_clock = 0
    /\ cooldown_pc = [t \in Threads |-> "idle"]
    /\ cooldown_frame = [t \in Threads |-> NoCheck]
    /\ cooldown_done = [t \in Threads |-> NoVerdict]
    /\ cooldown_admitted = <<>>
    /\ cooldown_calls = 0

\* ------------------------------------------------------ the callers
NoLocals == [fn |-> "none"]
NoReturn == [fn |-> "none"]

\* Neither evaluate nor analyze_next_step has been called.
CallersIdle ==
    /\ caller_pc = "idle"
    /\ caller_frame = NoLocals
    /\ caller_done = NoReturn
    /\ caller_calls = 0

\* ------------------------------------------------------ start_session
NoSession ==
    [language |-> "", attempt |-> 0, full_response |-> <<>>,
     last_exc |-> PyNone]
NoLog ==
    [slept |-> <<>>,       \* the delays of asyncio.sleep, in order
     requests |-> 0,       \* calls of generate_content_stream
     chunks |-> 0,         \* chunks the service has streamed
     text |-> <<>>,        \* the text streamed in the present attempt
     ended |-> "none"]     \* "success" or "error" once the generator is over

\* start_session has not been called.
SessionIdle ==
    /\ session_pc = "idle"
    /\ session_frame = NoSession
    /\ session_stream = <<>>
    /\ session_log = NoLog

NoResponse == [t |-> "none"]
NoFile == [n |-> 0, ext |-> ""]
NoCode == [wrapper |-> "", code |-> <<>>, input_code |-> <<>>]

\* enumerate(test_cases) counts from 0; sequences count from 1.
idx == Len(test_results)
test_case == request.test_cases[idx + 1]
config == LANGUAGE_CONFIGS[request.language]

Init ==
    /\ request \in Requests
    /\ pc = "call"
    /\ wrapped_code = NoCode
    /\ test_results = <<>>
    /\ total_execution_time = 0
    /\ response = NoResponse
    /\ raised = NoExc
    /\ fs = {}
    /\ f = NoFile
    /\ temp_file = NoFile
    /\ tmp_count = 0
    /\ children = <<>>
    /\ stdout = <<>>
    /\ stderr = <<>>
    /\ history = <<>>
    /\ RetryIdle
    /\ CacheIdle
    /\ CooldownIdle
    /\ CallersIdle
    /\ SessionIdle

\* ------------------------------------------------------- _wrap_code
\* repr(str) and json.dumps(str) of a text without quotes or backslashes.
Repr(text) == <<Ch("'")>> \o text \o <<Ch("'")>>
JsonDumps(text) == <<Ch("\"")>> \o text \o <<Ch("\"")>>

WrapCode(code, test_input, language) ==
    LET formatted_input ==
            IF language \in {"python"} THEN Repr(test_input)
            ELSE JsonDumps(test_input)
    IN  [wrapper |-> language, code |-> code, input_code |-> formatted_input]

\* ------------------------------------------------------- results
TestResult(index, passed, expected, actual, error, time_ms) ==
    [test_case_index |-> index, passed |-> passed,
     expected_output |-> expected, actual_output |-> actual,
     error_message |-> error, execution_time_ms |-> time_ms]

Response(success, results, time_ms, error) ==
    [t |-> "response", success |-> success, test_results |-> results,
     execution_time_ms |-> time_ms, error |-> error]

ToMs_Rounded(us) == (us + 500) \div 1000

\* int(seconds * 1000), the time being kept in microseconds.
ToMs(us) == us \div 1000

\* execute, lines 110-117: the parsed output, or the exception of the parse.
ParseResult(result) ==
    LET p == JsonLoads(result) IN
    IF ~p.ok
    THEN [exc |-> NoExc, actual_output |-> result,
          error |-> PyStr(ParseFailedMessage)]
    ELSE IF p.v.t # "dict"
    THEN [exc |-> Exc("AttributeError", NoGetMessage(p.v))]
    ELSE [exc |-> NoExc,
          actual_output |-> DictGet(p.v, "output", PyStr(<<>>)).s,
          error |-> DictGet(p.v, "error", PyNone)]

Passed_NoTrim(actual_output, expected_output, error) ==
    actual_output = Strip(expected_output) /\ error = PyNone

\* execute, lines 119-123.
Passed(actual_output, expected_output, error) ==
    Strip(actual_output) = Strip(expected_output) /\ error = PyNone

\* execute, lines 125-132: the result of a run that returned.
NormalResult(index, tc, parsed, execution_time) ==
    TestResult(index,
               Passed(parsed.actual_output, tc.expected_output, parsed.error),
               tc.expected_output, parsed.actual_output, parsed.error,
               ToMs(execution_time))

FailedResult_OneBased(index, tc, e) ==
    TestResult(index + 1, FALSE, tc.expected_output, <<>>, PyStr(e.msg), 0)

FailedResult_NoMessage(index, tc, e) ==
    TestResult(index, FALSE, tc.expected_output, <<>>, PyNone, 0)

\* execute, lines 134-142: the result of a test case that raised.
FailedResult(index, tc, e) ==
    TestResult(index, FALSE, tc.expected_output, <<>>, PyStr(e.msg), 0)

\* What happened to a test case: the exception that ended it (or NoExc),
\* and, when its run returned, the blob and the measured time.
NoRun(e) == [exc |-> e, ran |-> FALSE, blob |-> <<>>, execution_time |-> 0]
Ran(e, blob, execution_time) ==
    [exc |-> e, ran |-> TRUE, blob |-> blob, execution_time |-> execution_time]

\* The except clause of execute: the exception e ends test case idx.
Caught(e) ==
    /\ test_results' = Append(test_results, FailedResult(idx, test_case, e))
    /\ pc' = "loop"

\* The finally clause of _run_subprocess.
Unlinked(name) == {file \in fs : file.name # name}

\* _run_subprocess, lines 212-216.
Blob(out, err) ==
    LET output == Decode(out) IN
    IF err # <<>> THEN Decode(err) \o <<NL>> \o output ELSE output

\* ------------------------------------------------------- execute
\* Lines 80-90: the language check and the start of the loop.
Execute ==
    /\ pc = "call"
    /\ IF request.language \notin DOMAIN LANGUAGE_CONFIGS
       THEN /\ response' = Response(FALSE, <<>>, 0,
                               PyStr(UnsupportedMessage(request.language)))
            /\ pc' = "returned"
       ELSE /\ pc' = "loop"
            /\ UNCHANGED response
    /\ UNCHANGED <<request, wrapped_code, test_results, total_execution_time,
                   raised, fs, f, temp_file, tmp_count, children, stdout,
                   stderr, history>>
    /\ UNCHANGED outsideExecutor

\* Lines 92-99 and 181-185: the next test case is wrapped and
\* _run_subprocess opens its NamedTemporaryFile(delete=False), which can fail
\* with OSError before any file exists.
BeginTest ==
    /\ pc = "loop"
    /\ idx < Len(request.test_cases)
    /\ wrapped_code' =
           WrapCode(request.code, test_case.input, request.language)
    /\ \E created \in BOOLEAN :
           IF created
           THEN LET name == [n |-> tmp_count + 1, ext |-> config.extension] IN
                /\ fs' = fs \cup {[name |-> name, content |-> NoCode]}
                /\ f' = name
                /\ tmp_count' = tmp_count + 1
                /\ pc' = "write"
                /\ UNCHANGED <<test_results, history>>
           ELSE /\ Caught(Exc("OSError", OSErrorMessage("mkstemp")))
                /\ history' =
                       Append(history,
                              NoRun(Exc("OSError", OSErrorMessage("mkstemp"))))
                /\ UNCHANGED <<fs, f, tmp_count>>
    /\ UNCHANGED <<request, total_execution_time, response, raised,
                   temp_file, children, stdout, stderr>>
    /\ UNCHANGED outsideExecutor

\* Lines 186-187: f.write(code) and the end of the with block.  A failed
\* write (disk full, a code point that cannot be encoded) leaves the with
\* block before temp_file is bound and before the try block is entered.
WriteCode ==
    /\ pc = "write"
    /\ \E written \in BOOLEAN :
           IF written
           THEN /\ fs' = Unlinked(f) \cup
                             {[name |-> f, content |-> wrapped_code]}
                /\ temp_file' = f
                /\ pc' = "spawn"
                /\ UNCHANGED <<test_results, history>>
           ELSE /\ Caught(Exc("OSError", OSErrorMessage("write")))
                /\ history' =
                       Append(history,
                              NoRun(Exc("OSError", OSErrorMessage("write"))))
                /\ UNCHANGED <<fs, temp_file>>
    /\ UNCHANGED <<request, wrapped_code, total_execution_time, response,
                   raised, f, tmp_count, children, stdout, stderr>>
    /\ UNCHANGED outsideExecutor

\* Lines 189-199: create_subprocess_exec either starts the child or raises
\* (the executable is missing); the finally clause then removes the file.
Spawn ==
    /\ pc = "spawn"
    /\ \E started \in BOOLEAN :
           IF started
           THEN /\ children' =
                       Append(children, [test |-> idx, state |-> "running",
                                         killed |-> FALSE])
                /\ pc' = "wait"
                /\ UNCHANGED <<test_results, fs, history>>
           ELSE /\ fs' = Unlinked(temp_file)
                /\ Caught(Exc("OSError", OSErrorMessage(config.executable)))
                /\ history' =
                       Append(history,
                              NoRun(Exc("OSError",
                                        OSErrorMessage(config.executable))))
                /\ UNCHANGED children
    /\ stdout' = <<>>
    /\ stderr' = <<>>
    /\ UNCHANGED <<request, wrapped_code, total_execution_time, response,
                   raised, f, temp_file, tmp_count>>
    /\ UNCHANGED outsideExecutor

\* ------------------------------------------------------- the child
process == children[Len(children)]
ProcessIs(state) == children # <<>> /\ process.state = state
SetProcess(state) == [children EXCEPT ![Len(children)].state = state]
Kill == [children EXCEPT ![Len(children)].state = "killed",
                         ![Len(children)].killed = TRUE]

\* The child process ends by itself, having written its output.  A child
\* whose parent call is gone has nobody reading its pipes.
ChildExits ==
    /\ ProcessIs("running")
    /\ children' = SetProcess("exited")
    /\ IF pc = "wait"
       THEN stdout' \in StdoutSet /\ stderr' \in StderrSet
       ELSE UNCHANGED <<stdout, stderr>>
    /\ UNCHANGED <<pc, request, wrapped_code, test_results,
                   total_execution_time, response, raised, fs, f, temp_file,
                   tmp_count, history>>
    /\ UNCHANGED outsideExecutor

\* Lines 202-205, 211-223 and 108-132: communicate() returns once the child
\* has ended and has been waited for; the output is decoded, the file is
\* removed, the time is added to the total, and the output is parsed and
\* compared.  An exception of the parse goes to the except clause.
CommunicateReturns ==
    /\ pc = "wait"
    /\ ProcessIs("exited")
    /\ children' = SetProcess("reaped")
    /\ fs' = Unlinked(temp_file)
    /\ \E execution_time \in RunTimes :
           LET parsed == ParseResult(Blob(stdout, stderr)) IN
           /\ total_execution_time' = total_execution_time + execution_time
           /\ history' =
                  Append(history,
                         Ran(parsed.exc, Blob(stdout, stderr), execution_time))
           /\ IF parsed.exc = NoExc
              THEN /\ test_results' =
                          Append(test_results,
                                 NormalResult(idx, test_case, parsed,
                                              execution_time))
                   /\ pc' = "loop"
              ELSE Caught(parsed.exc)
    /\ stdout' = <<>>
    /\ stderr' = <<>>
    /\ UNCHANGED <<request, wrapped_code, response, raised, f, temp_file,
                   tmp_count>>
    /\ UNCHANGED outsideExecutor

TimeoutFires_NoKill ==
    /\ pc = "wait"
    /\ ProcessIs("running")
    /\ fs' = Unlinked(temp_file)
    /\ Caught(Exc("TimeoutError", TimeoutMessage(request.time_limit_ms)))
    /\ history' =
           Append(history,
                  NoRun(Exc("TimeoutError",
                            TimeoutMessage(request.time_limit_ms))))
    /\ UNCHANGED <<request, wrapped_code, total_execution_time, response,
                   raised, f, temp_file, tmp_count, children, stdout, stderr>>
    /\ UNCHANGED outsideExecutor

\* Lines 206-208: wait_for gave up on a child that is still running;
\* process.kill(), then the call waits for the child to be reaped.
TimeoutFires ==
    /\ pc = "wait"
    /\ ProcessIs("running")
    /\ children' = Kill
    /\ pc' = "reap"
    /\ UNCHANGED <<request, wrapped_code, test_results, total_execution_time,
                   response, raised, fs, f, temp_file, tmp_count, stdout,
                   stderr, history>>
    /\ UNCHANGED outsideExecutor

\* Lines 208-209, 220-223 and 134-142: process.wait() returns, TimeoutError
\* is raised through the finally clause into the except clause of execute.
Reaped ==
    /\ pc = "reap"
    /\ ProcessIs("killed")
    /\ children' = SetProcess("reaped")
    /\ fs' = Unlinked(temp_file)
    /\ Caught(Exc("TimeoutError", TimeoutMessage(request.time_limit_ms)))
    /\ history' =
           Append(history,
                  NoRun(Exc("TimeoutError",
                            TimeoutMessage(request.time_limit_ms))))
    /\ UNCHANGED <<request, wrapped_code, total_execution_time, response,
                   raised, f, temp_file, tmp_count, stdout, stderr>>
    /\ UNCHANGED outsideExecutor

\* The task awaiting execute is cancelled while it is suspended in
\* create_subprocess_exec, wait_for or process.wait(): CancelledError runs
\* the finally clause and is not caught by `except Exception`.
Cancelled ==
    /\ pc \in {"spawn", "wait", "reap"}
    /\ fs' = Unlinked(temp_file)
    /\ raised' = Exc("CancelledError", <<>>)
    /\ pc' = "raised"
    /\ UNCHANGED <<request, wrapped_code, test_results, total_execution_time,
                   response, f, temp_file, tmp_count, children, stdout,
                   stderr, history>>
    /\ UNCHANGED outsideExecutor

Return_AnyPassed ==
    /\ pc = "loop"
    /\ idx = Len(request.test_cases)
    /\ response' =
           Response(\E i \in 1..Len(test_results) : test_results[i].passed,
                    test_results, ToMs(total_execution_time), PyNone)
    /\ pc' = "returned"
    /\ UNCHANGED <<request, wrapped_code, test_results, total_execution_time,
                   raised, fs, f, temp_file, tmp_count, children, stdout,
                   stderr, history>>
    /\ UNCHANGED outsideExecutor

\* Lines 144-149: every test case is done.
Return ==
    /\ pc = "loop"
    /\ idx = Len(request.test_cases)
    /\ response' =
           Response(\A i \in 1..Len(test_results) : test_results[i].passed,
                    test_results, ToMs(total_execution_time), PyNone)
    /\ pc' = "returned"
    /\ UNCHANGED <<request, wrapped_code, test_results, total_execution_time,
                   raised, fs, f, temp_file, tmp_count, children, stdout,
                   stderr, history>>
    /\ UNCHANGED outsideExecutor

Next ==
    \/ Execute
    \/ BeginTest
    \/ WriteCode
    \/ Spawn
    \/ ChildExits
    \/ CommunicateReturns
    \/ TimeoutFires
    \/ Reaped
    \/ Cancelled
    \/ Return

Spec == Init /\ [][Next]_vars

\* =====================================================================
\* Properties of CodeExecutor.execute
\* =====================================================================
Supported == request.language \in DOMAIN LANGUAGE_CONFIGS
N == Len(request.test_cases)
Done == pc = "returned" /\ Supported

\* C1: a returned result of a supported language holds exactly N test
\* results, and at every moment the result at position i carries index i
\* (counted from 0) and the expected_output of the i-th test case; one
\* result is appended per finished test case, whatever happened to it.
C1_OneResultPerTestCase ==
    /\ Len(test_results) = Len(history)
    /\ Len(test_results) <= N
    /\ \A i \in 1..Len(test_results) :
           /\ test_results[i].test_case_index = i - 1
           /\ test_results[i].expected_output =
                  request.test_cases[i].expected_output
    /\ Done => /\ Len(response.test_results) = N
               /\ response.test_results = test_results

\* C1 witness: a returned call of MaxTests test cases in which one test case
\* timed out, or raised, and another ran normally.
C1_Witness ==
    /\ Done
    /\ N = MaxTests
    /\ \E i, j \in 1..N : /\ history[i].exc # NoExc
                          /\ history[j].exc = NoExc

\* C2: an exception (a class caught by `except Exception`) raised for test
\* case i gives a failed result for i with passed = false, execution time 0,
\* empty actual_output and the exception's message; the call is never left
\* by such an exception, and it returns only after all N test cases.
C2_ExceptionBecomesFailedResult ==
    /\ \A i \in 1..Len(history) :
           history[i].exc # NoExc =>
               /\ history[i].exc.cls \in ExceptionClasses
               /\ test_results[i].passed = FALSE
               /\ test_results[i].execution_time_ms = 0
               /\ test_results[i].actual_output = <<>>
               /\ test_results[i].error_message = PyStr(history[i].exc.msg)
    /\ raised.cls \notin ExceptionClasses
    /\ Done => Len(history) = N

\* C2 witness: the first test case raised and the call went on to return
\* after a later test case.
C2_Witness ==
    /\ Done
    /\ N >= 2
    /\ history[1].exc # NoExc
    /\ history[1].exc.cls = "AttributeError"
    /\ history[N].exc = NoExc

\* C3: whenever no _run_subprocess call is in progress, no temporary file
\* created by the call is left on disk.
C3_TempFileRemoved ==
    pc \in {"loop", "returned", "raised"} => fs = {}

\* C4: a test case whose child was still running at the time limit has its
\* child killed and reaped before TimeoutError is raised; the error carries
\* the configured limit, the test case is reported failed with that
\* message, no other child is killed, and the call is not left by it.
C4_TimeoutKillsReapsAndContinues ==
    LET message == Text(<<"Execution timeout (",
                          ToString(request.time_limit_ms), "ms)">>)
        TimedOut(i) == history[i].exc.cls = "TimeoutError"
    IN  /\ \A i \in 1..Len(history) :
               TimedOut(i) =>
                   /\ history[i].exc.msg = message
                   /\ test_results[i].passed = FALSE
                   /\ test_results[i].error_message = PyStr(message)
                   /\ \E k \in 1..Len(children) :
                          /\ children[k].test = i - 1
                          /\ children[k].killed
                          /\ children[k].state = "reaped"
        /\ \A k \in 1..Len(children) :
               children[k].killed =>
                   \/ /\ children[k].test < Len(history)
                      /\ TimedOut(children[k].test + 1)
                   \/ /\ k = Len(children)
                      /\ children[k].test = idx
                      /\ pc \in {"reap", "raised"}
        /\ pc = "reap" => ProcessIs("killed")
        /\ raised.cls # "TimeoutError"
        /\ Done => Len(test_results) = N

\* C4 witness: the first test case timed out and the next one ran and
\* passed.
C4_Witness ==
    /\ Done
    /\ N >= 2
    /\ history[1].exc.cls = "TimeoutError"
    /\ history[2].exc = NoExc
    /\ test_results[2].passed

\* C5: a result of the normal path has passed = true exactly when the
\* trimmed actual output equals the trimmed expected output as a string and
\* the error is null.
C5_PassedIffTrimmedEqualAndNoError ==
    \A i \in 1..Len(history) :
        history[i].exc = NoExc =>
            (test_results[i].passed <=>
                 /\ Strip(test_results[i].actual_output) =
                        Strip(test_results[i].expected_output)
                 /\ test_results[i].error_message = PyNone)

\* C5 witness: one result passed although actual and expected output differ
\* before trimming, and another with a null error did not pass.
C5_Witness ==
    /\ \E i \in 1..Len(history) :
           /\ history[i].exc = NoExc
           /\ test_results[i].passed
           /\ test_results[i].actual_output # test_results[i].expected_output
    /\ \E i \in 1..Len(history) :
           /\ history[i].exc = NoExc
           /\ ~test_results[i].passed
           /\ test_results[i].error_message = PyNone

\* C6: for a supported language the success field of the response is true
\* exactly when every test result passed; with zero test cases it is true.
C6_SuccessIffAllPassed ==
    Done =>
        /\ response.success <=>
               \A i \in 1..Len(response.test_results) :
                   response.test_results[i].passed
        /\ N = 0 => response.success

\* C6 witness: a request with zero test cases has returned success = true.
C6_Witness ==
    /\ Done
    /\ N = 0
    /\ response.success

\* C7: a call with a language that has no configuration creates no
\* temporary file and spawns no child, and returns success = false, no test
\* results, time 0 and an error that names the language.
C7_UnsupportedLanguageShortCircuits ==
    ~Supported =>
        /\ pc \in {"call", "returned"}
        /\ tmp_count = 0
        /\ fs = {}
        /\ children = <<>>
        /\ pc = "returned" =>
               /\ response.success = FALSE
               /\ response.test_results = <<>>
               /\ response.execution_time_ms = 0
               /\ response.error # PyNone
               /\ \E k \in 1..Len(response.error.s) :
                      response.error.s[k] = Ch(request.language)

\* C7 witness: a request with MaxTests test cases and an unsupported
\* language has returned.
C7_Witness ==
    /\ ~Supported
    /\ N = MaxTests
    /\ pc = "returned"

\* The blob is one JSON object, the shape the harness prints.
IsHarnessResult(blob) ==
    JsonLoads(blob).ok /\ JsonLoads(blob).v.t = "dict"

\* C8: a test case whose blob is not the harness's JSON result has
\* actual_output = the raw blob, error_message = "Failed to parse output",
\* passed = false and the measured time in milliseconds.
C8_UnparsableBlobKeptRaw ==
    \A i \in 1..Len(history) :
        (history[i].ran /\ ~IsHarnessResult(history[i].blob)) =>
            /\ test_results[i].actual_output = history[i].blob
            /\ test_results[i].error_message =
                   PyStr(Text(<<"Failed to parse output">>))
            /\ test_results[i].passed = FALSE
            /\ test_results[i].execution_time_ms =
                   history[i].execution_time \div 1000

RECURSIVE SumResultMs(_)
SumResultMs(results) ==
    IF results = <<>> THEN 0
    ELSE Head(results).execution_time_ms + SumResultMs(Tail(results))

RECURSIVE SumRunUs(_)
SumRunUs(h) ==
    IF h = <<>> THEN 0
    ELSE Head(h).execution_time + SumRunUs(Tail(h))

\* C9 as claimed: the execution_time_ms of a response is the sum of the
\* execution_time_ms of its test results.
C9_TotalIsSumOfResults ==
    pc = "returned" =>
        response.execution_time_ms = SumResultMs(response.test_results)

\* C9 as amended: the execution_time_ms of a response is the sum of the
\* measured times of the runs that returned, truncated once to
\* milliseconds; it is never below the sum of the results' fields.
C9_TotalIsTruncatedSumOfRuns ==
    pc = "returned" =>
        /\ response.execution_time_ms = SumRunUs(history) \div 1000
        /\ response.execution_time_ms >= SumResultMs(response.test_results)

\* C9 witness: every test case ran normally and the total exceeds the sum of
\* the results' fields.
C9_Witness ==
    /\ Done
    /\ N >= 2
    /\ \A i \in 1..N : history[i].exc = NoExc
    /\ response.execution_time_ms > SumResultMs(response.test_results)

\* C10: at most one child of the call is running; a child is spawned for
\* test case i only when every earlier child has ended and the results of
\* all earlier test cases have been appended.
C10_OneChildAtATime ==
    /\ Cardinality({k \in 1..Len(children) :
                        children[k].state = "running"}) <= 1
    /\ \A k \in 1..Len(children) :
           /\ children[k].test <= Len(test_results)
           /\ k < Len(children) =>
                  /\ children[k].state # "running"
                  /\ children[k].test < children[k + 1].test
                  /\ children[k].test < Len(test_results)

\* C10 witness: the child of the second test case is running after the
\* child of the first has been reaped.
C10_Witness ==
    /\ Len(children) = 2
    /\ children[1].state = "reaped"
    /\ children[2].state = "running"
    /\ children[2].test = 1

\* =====================================================================
\* services/gemini_utils.py: the retry wrappers
\* =====================================================================
MAX_RETRIES == 3
INITIAL_DELAY == 1

\* No call of execute is in progress.
NoRequest ==
    [code |-> <<>>, language |-> "", test_cases |-> <<>>, time_limit_ms |-> 0]

ExecutorIdle ==
    /\ pc = "idle"
    /\ request = NoRequest
    /\ wrapped_code = NoCode
    /\ test_results = <<>>
    /\ total_execution_time = 0
    /\ response = NoResponse
    /\ raised = NoExc
    /\ fs = {}
    /\ f = NoFile
    /\ temp_file = NoFile
    /\ tmp_count = 0
    /\ children = <<>>
    /\ stdout = <<>>
    /\ stderr = <<>>
    /\ history = <<>>

\* ------------------------------------------------------ _is_rate_error
_RATE_ERRORS ==
    { Text(<<"4", "2", "9">>),
      Text(<<"q", "u", "o", "t", "a">>),
      Text(<<"r", "a", "t", "e", " ", "l", "i", "m", "i", "t">>),
      Text(<<"r", "e", "s", "o", "u", "r", "c", "e", "_",
             "e", "x", "h", "a", "u", "s", "t", "e", "d">>),
      Text(<<"t", "o", "o", " ", "m", "a", "n", "y", " ",
             "r", "e", "q", "u", "e", "s", "t", "s">>) }

\* str.lower() on the letters.
LowerOf ==
    [A |-> "a", B |-> "b", C |-> "c", D |-> "d", E |-> "e", F |-> "f",
     G |-> "g", H |-> "h", I |-> "i", J |-> "j", K |-> "k", L |-> "l",
     M |-> "m", N |-> "n", O |-> "o", P |-> "p", Q |-> "q", R |-> "r",
     S |-> "s", T |-> "t", U |-> "u", V |-> "v", W |-> "w", X |-> "x",
     Y |-> "y", Z |-> "z"]
LowerTok(tok) ==
    IF tok.c \in DOMAIN LowerOf THEN Ch(LowerOf[tok.c]) ELSE tok
Lower(text) == [i \in 1..Len(text) |-> LowerTok(text[i])]

\* token in s
Contains(text, token) ==
    \E i \in 1..(Len(text) - Len(token) + 1) :
        SubSeq(text, i, i + Len(token) - 1) = token

\* Lines 27-29.
IsRateError(exc) ==
    LET s == Lower(exc.msg) IN
    \E token \in _RATE_ERRORS : Contains(s, token)

\* ------------------------------------------------------ the operation
\* What one call of the wrapped operation can do: return a text, or raise
\* an exception with one of these messages.
OkValue == Text(<<"o", "k">>)
ErrorMessages ==
    { Text(<<"4", "2", "9">>),                \* rate limited
      Text(<<"Q", "u", "o", "t", "a">>),      \* quota, capitalised
      Text(<<"4", "0", "4">>) }               \* not found
OutcomeKinds ==
    {[kind |-> "ok", value |-> OkValue]} \cup
    {[kind |-> "raise", msg |-> m] : m \in ErrorMessages}

\* The exception object raised, and the value returned, by call number k.
RaisedAt(k, msg) == [cls |-> "Exception", msg |-> msg, at |-> k]
ReturnedAt(k, value) == [value |-> value, at |-> k]

Returned(value) == [how |-> "returned", value |-> value]
Raised(exc) == [how |-> "raised", exc |-> exc]

\* One outcome more than one wrapper call can use.
OutcomeSeqs == [1..(MAX_RETRIES + 2) -> OutcomeKinds]

RetryInit ==
    /\ op_outcomes \in OutcomeSeqs
    /\ retry_pc = [w \in Wrappers |-> "idle"]
    /\ retry_attempt = [w \in Wrappers |-> 0]
    /\ retry_last_exc = [w \in Wrappers |-> PyNone]
    /\ retry_calls = [w \in Wrappers |-> 0]
    /\ retry_slept = [w \in Wrappers |-> <<>>]
    /\ retry_result = [w \in Wrappers |-> NoResult]

\* 2 ** attempt
RECURSIVE Pow2(_)
Pow2(n) == IF n = 0 THEN 1 ELSE 2 * Pow2(n - 1)


\* ------------------------------------------------------ gemini_retry_sync
SyncShouldRetry_AnyError(exc, attempt) == attempt < MAX_RETRIES

\* Line 42.
SyncShouldRetry(exc, attempt) == IsRateError(exc) /\ attempt < MAX_RETRIES

SyncDelay_Linear(attempt) == INITIAL_DELAY * (attempt + 1)

\* Line 44.
SyncDelay(attempt) == INITIAL_DELAY * Pow2(attempt)

SyncReraise_Last(exc, last_exc) == last_exc

\* Line 50-51: a bare raise re-raises the exception being handled.
SyncReraise(exc, last_exc) == exc

\* Lines 36-38: the wrapper is called; last_exc = None and the loop starts.
SyncCall ==
    /\ retry_pc["sync"] = "idle"
    /\ retry_pc' = [retry_pc EXCEPT !["sync"] = "attempt"]
    /\ retry_attempt' = [retry_attempt EXCEPT !["sync"] = 0]
    /\ retry_last_exc' = [retry_last_exc EXCEPT !["sync"] = PyNone]
    /\ UNCHANGED <<op_outcomes, retry_calls, retry_slept, retry_result>>
    /\ UNCHANGED outsideRetry

\* Lines 39-51: one attempt.  The operation is called; its value is
\* returned, or its exception is either followed by a sleep or re-raised.
SyncAttempt ==
    /\ retry_pc["sync"] = "attempt"
    /\ LET k == retry_calls["sync"] + 1
           attempt == retry_attempt["sync"]
           out == op_outcomes[k]
           exc == RaisedAt(k, out.msg)
       IN  /\ k <= Len(op_outcomes)
           /\ retry_calls' = [retry_calls EXCEPT !["sync"] = k]
           /\ IF out.kind = "ok"
              THEN /\ retry_result' =
                          [retry_result EXCEPT
                               !["sync"] = Returned(ReturnedAt(k, out.value))]
                   /\ retry_pc' = [retry_pc EXCEPT !["sync"] = "done"]
                   /\ UNCHANGED <<retry_last_exc, retry_slept>>
              ELSE IF SyncShouldRetry(exc, attempt)
              THEN /\ retry_last_exc' =
                          [retry_last_exc EXCEPT !["sync"] = exc]
                   /\ retry_slept' =
                          [retry_slept EXCEPT
                               !["sync"] = Append(@, SyncDelay(attempt))]
                   /\ retry_pc' = [retry_pc EXCEPT !["sync"] = "sleep"]
                   /\ UNCHANGED retry_result
              ELSE /\ retry_result' =
                          [retry_result EXCEPT
                               !["sync"] =
                                   Raised(SyncReraise(exc,
                                                     retry_last_exc["sync"]))]
                   /\ retry_pc' = [retry_pc EXCEPT !["sync"] = "done"]
                   /\ UNCHANGED <<retry_last_exc, retry_slept>>
    /\ UNCHANGED <<op_outcomes, retry_attempt>>
    /\ UNCHANGED outsideRetry

\* Lines 49 and 38, 52: the sleep is over; the loop goes to the next attempt,
\* or, the range being used up, to `raise last_exc`.
SyncWake ==
    /\ retry_pc["sync"] = "sleep"
    /\ retry_attempt' =
           [retry_attempt EXCEPT !["sync"] = @ + 1]
    /\ IF retry_attempt["sync"] + 1 <= MAX_RETRIES
       THEN /\ retry_pc' = [retry_pc EXCEPT !["sync"] = "attempt"]
            /\ UNCHANGED retry_result
       ELSE /\ retry_pc' = [retry_pc EXCEPT !["sync"] = "done"]
            /\ retry_result' =
                   [retry_result EXCEPT
                        !["sync"] = Raised(retry_last_exc["sync"])]
    /\ UNCHANGED <<op_outcomes, retry_last_exc, retry_calls, retry_slept>>
    /\ UNCHANGED outsideRetry

\* ------------------------------------------------------ gemini_retry_async
AsyncShouldRetry_AnyError(exc, attempt) == attempt < MAX_RETRIES

\* Line 67.
AsyncShouldRetry(exc, attempt) == IsRateError(exc) /\ attempt < MAX_RETRIES

AsyncDelay_Linear(attempt) == INITIAL_DELAY * (attempt + 1)

\* Line 69.
AsyncDelay(attempt) == INITIAL_DELAY * Pow2(attempt)

\* Line 75-76: a bare raise re-raises the exception being handled.
AsyncReraise(exc, last_exc) == exc

\* Lines 61-63: the wrapper is called; last_exc = None and the loop starts.
AsyncCall ==
    /\ retry_pc["async"] = "idle"
    /\ retry_pc' = [retry_pc EXCEPT !["async"] = "attempt"]
    /\ retry_attempt' = [retry_attempt EXCEPT !["async"] = 0]
    /\ retry_last_exc' = [retry_last_exc EXCEPT !["async"] = PyNone]
    /\ UNCHANGED <<op_outcomes, retry_calls, retry_slept, retry_result>>
    /\ UNCHANGED outsideRetry

\* Lines 64-76: one attempt.  The operation is called; its value is
\* returned, or its exception is either followed by a sleep or re-raised.
AsyncAttempt ==
    /\ retry_pc["async"] = "attempt"
    /\ LET k == retry_calls["async"] + 1
           attempt == retry_attempt["async"]
           out == op_outcomes[k]
           exc == RaisedAt(k, out.msg)
       IN  /\ k <= Len(op_outcomes)
           /\ retry_calls' = [retry_calls EXCEPT !["async"] = k]
           /\ IF out.kind = "ok"
              THEN /\ retry_result' =
                          [retry_result EXCEPT
                               !["async"] = Returned(ReturnedAt(k, out.value))]
                   /\ retry_pc' = [retry_pc EXCEPT !["async"] = "done"]
                   /\ UNCHANGED <<retry_last_exc, retry_slept>>
              ELSE IF AsyncShouldRetry(exc, attempt)
              THEN /\ retry_last_exc' =
                          [retry_last_exc EXCEPT !["async"] = exc]
                   /\ retry_slept' =
                          [retry_slept EXCEPT
                               !["async"] = Append(@, AsyncDelay(attempt))]
                   /\ retry_pc' = [retry_pc EXCEPT !["async"] = "sleep"]
                   /\ UNCHANGED retry_result
              ELSE /\ retry_result' =
                          [retry_result EXCEPT
                               !["async"] =
                                   Raised(AsyncReraise(exc,
                                                     retry_last_exc["async"]))]
                   /\ retry_pc' = [retry_pc EXCEPT !["async"] = "done"]
                   /\ UNCHANGED <<retry_last_exc, retry_slept>>
    /\ UNCHANGED <<op_outcomes, retry_attempt>>
    /\ UNCHANGED outsideRetry

\* Lines 74 and 63, 77: the sleep is over; the loop goes to the next attempt,
\* or, the range being used up, to `raise last_exc`.
AsyncWake ==
    /\ retry_pc["async"] = "sleep"
    /\ retry_attempt' =
           [retry_attempt EXCEPT !["async"] = @ + 1]
    /\ IF retry_attempt["async"] + 1 <= MAX_RETRIES
       THEN /\ retry_pc' = [retry_pc EXCEPT !["async"] = "attempt"]
            /\ UNCHANGED retry_result
       ELSE /\ retry_pc' = [retry_pc EXCEPT !["async"] = "done"]
            /\ retry_result' =
                   [retry_result EXCEPT
                        !["async"] = Raised(retry_last_exc["async"])]
    /\ UNCHANGED <<op_outcomes, retry_last_exc, retry_calls, retry_slept>>
    /\ UNCHANGED outsideRetry

RetryNext ==
    \/ SyncCall
    \/ SyncAttempt
    \/ SyncWake
    \/ AsyncCall
    \/ AsyncAttempt
    \/ AsyncWake

InitRetry ==
    /\ RetryInit
    /\ ExecutorIdle /\ CacheIdle /\ CooldownIdle /\ CallersIdle /\ SessionIdle

SpecRetry == InitRetry /\ [][RetryNext]_vars

\* time.sleep and asyncio.sleep return, and the operation returns or raises:
\* a wrapper call that can take a step takes it.
SpecRetryFair ==
    /\ SpecRetry
    /\ WF_vars(SyncCall) /\ WF_vars(SyncAttempt) /\ WF_vars(SyncWake)
    /\ WF_vars(AsyncCall) /\ WF_vars(AsyncAttempt) /\ WF_vars(AsyncWake)

\* =====================================================================
\* Properties of the retry wrappers
\* =====================================================================
OkAt(k) == op_outcomes[k].kind = "ok"
TransientAt(k) ==
    /\ op_outcomes[k].kind = "raise"
    /\ IsRateError(RaisedAt(k, op_outcomes[k].msg))
FatalAt(k) ==
    /\ op_outcomes[k].kind = "raise"
    /\ ~IsRateError(RaisedAt(k, op_outcomes[k].msg))
RetryDone(w) == retry_pc[w] = "done"

\* C11: one wrapper call invokes the operation at most 4 times, attempt k+1
\* is made only after attempt k raised a transient error and k <= 3, and
\* the call eventually ends by returning or raising.
C11_AtMostFourAttemptsAndEnds ==
    /\ [](\A w \in Wrappers :
              /\ retry_calls[w] <= 4
              /\ \A k \in 1..retry_calls[w] :
                     k < retry_calls[w] => (TransientAt(k) /\ k <= 3))
    /\ <>(\A w \in Wrappers :
              /\ RetryDone(w)
              /\ retry_result[w].how \in {"returned", "raised"})

\* C11 witness: a wrapper call has ended after 4 attempts.
C11_Witness ==
    \E w \in Wrappers : RetryDone(w) /\ retry_calls[w] = 4

\* C12: exactly one sleep separates two consecutive attempts, the sleeps
\* last 1 s, 2 s, 4 s in that order, there is none before the first attempt
\* or after the last, and the total is at most 7 s.
C12_BackoffSleeps ==
    \A w \in Wrappers :
        LET slept == retry_slept[w] IN
        /\ Len(slept) <= 3
        /\ \A i \in 1..Len(slept) : slept[i] = <<1, 2, 4>>[i]
        /\ retry_pc[w] \in {"idle", "attempt", "sleep"} =>
               Len(slept) = retry_calls[w]
        /\ RetryDone(w) => Len(slept) = retry_calls[w] - 1
        /\ (IF Len(slept) = 0 THEN 0
            ELSE IF Len(slept) = 1 THEN slept[1]
            ELSE IF Len(slept) = 2 THEN slept[1] + slept[2]
            ELSE slept[1] + slept[2] + slept[3]) <= 7

\* C12 witness: a wrapper call has ended after sleeping 1 s, 2 s and 4 s.
C12_Witness ==
    \E w \in Wrappers : RetryDone(w) /\ retry_slept[w] = <<1, 2, 4>>

\* C13: an attempt that raises an error not classified as transient ends the
\* wrapper call at once: that same error is raised, with no sleep after it
\* and no further attempt, at whichever attempt it occurs.
C13_NonTransientIsReraisedAtOnce ==
    \A w \in Wrappers :
        \A k \in 1..retry_calls[w] :
            FatalAt(k) =>
                /\ retry_calls[w] = k
                /\ RetryDone(w)
                /\ retry_result[w] =
                       Raised(RaisedAt(k, op_outcomes[k].msg))
                /\ Len(retry_slept[w]) = k - 1

\* C13 witness: the third attempt raised a non-transient error after two
\* transient ones.
C13_Witness ==
    \E w \in Wrappers :
        /\ retry_calls[w] = 3
        /\ TransientAt(1) /\ TransientAt(2) /\ FatalAt(3)
        /\ RetryDone(w)

\* C14: a successful attempt makes the wrapper return exactly that attempt's
\* value and attempt no more; a wrapper call never returns without such an
\* attempt; an error it raises is the error of the last attempt made, so
\* after 4 transient errors it is the 4th.
C14_NoSwallowNoInvention ==
    \A w \in Wrappers :
        /\ \A k \in 1..retry_calls[w] :
               OkAt(k) =>
                   /\ retry_calls[w] = k
                   /\ RetryDone(w)
                   /\ retry_result[w] =
                          Returned(ReturnedAt(k, op_outcomes[k].value))
        /\ RetryDone(w) =>
               /\ retry_result[w].how \in {"returned", "raised"}
               /\ retry_result[w].how = "returned" => OkAt(retry_calls[w])
               /\ retry_result[w].how = "raised" =>
                      retry_result[w].exc =
                          RaisedAt(retry_calls[w],
                                   op_outcomes[retry_calls[w]].msg)
               /\ (\A k \in 1..4 : TransientAt(k)) =>
                      retry_result[w] =
                          Raised(RaisedAt(4, op_outcomes[4].msg))

\* C14 witness: a wrapper call has ended after 4 transient errors.
C14_Witness ==
    \E w \in Wrappers :
        /\ RetryDone(w)
        /\ \A k \in 1..4 : TransientAt(k)
        /\ retry_result[w].how = "raised"

\* C15: fed the same outcomes, the synchronous and the asynchronous wrapper
\* make the same attempts, request the same sleeps and end the same way.
C15_SyncAsyncEquivalent ==
    /\ (RetryDone("sync") /\ RetryDone("async")) =>
           /\ retry_calls["sync"] = retry_calls["async"]
           /\ retry_slept["sync"] = retry_slept["async"]
           /\ retry_result["sync"] = retry_result["async"]
    /\ (/\ retry_calls["sync"] = retry_calls["async"]
        /\ retry_pc["sync"] = "sleep"
        /\ retry_pc["async"] = "sleep") =>
           retry_slept["sync"] = retry_slept["async"]

\* C15 witness: both wrapper calls have returned the value of the third
\* attempt.
C15_Witness ==
    /\ RetryDone("sync") /\ RetryDone("async")
    /\ retry_calls["sync"] = 3
    /\ retry_result["async"].how = "returned"

\* =====================================================================
\* services/gemini_utils.py: the response cache
\* =====================================================================
MaxCalls == 2      \* cache calls followed, over all threads

\* ------------------------------------------------------ the dict
\* The dict is the sequence of its items in iteration order.  The entries
\* left from the initial contents are written run by run: Run(a, b) stands
\* for FillerEntry(a), ..., FillerEntry(b) in this order; every entry
\* written or split off since is written out.
Entry(key, text, exp) == [key |-> key, text |-> text, exp |-> exp]

FillerExpiry == 50
FillerKey(i) == _prompt_key(FillerPrompt(i), "")
FillerEntry(i) == Entry(FillerKey(i), "old", FillerExpiry)
FillerIndex(key) == key.digest.sha1
IsFillerKey(key) ==
    /\ FillerIndex(key) \in 1..CACHE_MAX
    /\ key = FillerKey(FillerIndex(key))

Run(a, b) == [from |-> a, to |-> b]
IsRun(item) == "from" \in DOMAIN item
RunOrNone(a, b) == IF a <= b THEN <<Run(a, b)>> ELSE <<>>

\* len(_cache)
RECURSIVE DictLen(_)
DictLen(cache) ==
    IF cache = <<>> THEN 0
    ELSE (IF IsRun(Head(cache))
          THEN Head(cache).to - Head(cache).from + 1
          ELSE 1) + DictLen(Tail(cache))

Holds(item, key) ==
    IF IsRun(item)
    THEN IsFillerKey(key) /\ FillerIndex(key) \in item.from..item.to
    ELSE item.key = key

\* key in _cache
HasKey(cache, key) == \E i \in DOMAIN cache : Holds(cache[i], key)
Place(cache, key) == CHOOSE i \in DOMAIN cache : Holds(cache[i], key)

\* The keys of the filler prompts in the dict, by index, and the other keys.
Indices(cache) ==
    UNION { IF IsRun(cache[i]) THEN cache[i].from..cache[i].to
            ELSE IF IsFillerKey(cache[i].key)
                 THEN {FillerIndex(cache[i].key)}
                 ELSE {} : i \in DOMAIN cache }
OtherKeys(cache) ==
    UNION { IF IsRun(cache[i]) \/ IsFillerKey(cache[i].key)
            THEN {}
            ELSE {cache[i].key} : i \in DOMAIN cache }

\* The keys of the first dict that the second has not.
Removed(before, after) ==
    {FillerKey(i) : i \in Indices(before) \ Indices(after)}
        \cup (OtherKeys(before) \ OtherKeys(after))

\* _cache.get(key)
CacheLookup(cache, key) ==
    IF HasKey(cache, key)
    THEN LET item == cache[Place(cache, key)] IN
         IF IsRun(item) THEN FillerEntry(FillerIndex(key)) ELSE item
    ELSE PyNone

\* The dict with the items put in the place of its i-th item.
Splice(cache, i, items) ==
    SubSeq(cache, 1, i - 1) \o items \o SubSeq(cache, i + 1, Len(cache))

\* What is left of an item when the entry of the key is taken out and the
\* given entries are put in its place.
Replaced(item, key, entries) ==
    IF IsRun(item)
    THEN RunOrNone(item.from, FillerIndex(key) - 1) \o entries
         \o RunOrNone(FillerIndex(key) + 1, item.to)
    ELSE entries

DelItem_Nothing(cache, key) == cache
DelItem_First(cache, key) ==
    IF IsRun(cache[1])
    THEN RunOrNone(cache[1].from + 1, cache[1].to) \o Tail(cache)
    ELSE Tail(cache)
\* del _cache[key], for a key that is present.
DelItem(cache, key) ==
    Splice(cache, Place(cache, key),
           Replaced(cache[Place(cache, key)], key, <<>>))

\* _cache[key] = (text, exp): a key that is present keeps its place, a new
\* key goes last.
SetItem(cache, key, text, exp) ==
    IF HasKey(cache, key)
    THEN Splice(cache, Place(cache, key),
                Replaced(cache[Place(cache, key)], key,
                         <<Entry(key, text, exp)>>))
    ELSE Append(cache, Entry(key, text, exp))

NextIter_Last(cache) ==
    IF IsRun(cache[Len(cache)])
    THEN FillerKey(cache[Len(cache)].to)
    ELSE cache[Len(cache)].key
\* next(iter(_cache))
NextIter(cache) ==
    IF IsRun(cache[1]) THEN FillerKey(cache[1].from) ELSE cache[1].key

AtCapacity_Over(cache) == DictLen(cache) > CACHE_MAX
\* Line 112.
AtCapacity(cache) == DictLen(cache) >= CACHE_MAX

Expired_AtExpiry(clock, exp) == clock >= exp
\* Line 103.
Expired(clock, exp) == clock > exp

Evict_All(cache) == IF AtCapacity(cache) THEN <<>> ELSE cache
\* Lines 112-115.
Evict(cache) ==
    IF AtCapacity(cache) THEN DelItem(cache, NextIter(cache)) ELSE cache

\* Lines 96-106, run without interruption at one clock value.
cache_get(cache, key, clock) ==
    LET entry == CacheLookup(cache, key) IN
    IF entry = PyNone
    THEN [cache |-> cache, result |-> PyNone]
    ELSE IF Expired(clock, entry.exp)
         THEN [cache |-> DelItem(cache, key), result |-> PyNone]
         ELSE [cache |-> cache, result |-> PyStr(entry.text)]

\* Lines 109-116, run without interruption at one clock value.
cache_put(cache, key, text, clock) ==
    SetItem(Evict(cache), key, text, clock + CACHE_TTL)

\* ------------------------------------------------------ initial contents
\* The first n entries of the earlier calls, all written at the same time.
Filled(n) == RunOrNone(1, n)
InitialSizes == {0, CACHE_MAX - 1, CACHE_MAX}

\* A full dict whose first key was written again after the others: the
\* entry kept its place and has the later expiry.
RewrittenExpiry == 60
Rewritten ==
    <<Entry(FillerKey(1), "old", RewrittenExpiry)>> \o RunOrNone(2, CACHE_MAX)

InitialContents == {Filled(n) : n \in InitialSizes} \cup {Rewritten}
ClockValues == {0, CACHE_TTL, CACHE_TTL + 1}

WrittenIn(cache) ==
    [k \in CacheKeys |->
        IF HasKey(cache, k)
        THEN [text |-> CacheLookup(cache, k).text,
              at |-> CacheLookup(cache, k).exp - CACHE_TTL,
              live |-> TRUE]
        ELSE NoWrite]

CacheInit ==
    /\ \E cache \in InitialContents :
           /\ _cache = cache
           /\ seq_cache = cache
           /\ cache_written = WrittenIn(cache)
    /\ _cache_lock = "free"
    /\ now = 0
    /\ cache_pc = [t \in Threads |-> "idle"]
    /\ cache_frame = [t \in Threads |-> NoFrame]
    /\ cache_done = [t \in Threads |-> NoDone]
    /\ cache_calls = 0

\* ------------------------------------------------------ the lock
LockAvailable_NoLock(t) == TRUE
\* with _cache_lock: the thread goes on when the lock is free.
LockAvailable(t) == _cache_lock = "free"

\* What a finished call did, as seen from outside.
Observed(t, result, entry, after) ==
    [op |-> cache_frame[t].op,
     key |-> cache_frame[t].key,
     text |-> cache_frame[t].text,
     at |-> now,
     raised |-> FALSE,
     result |-> result,
     entry |-> entry,
     had_key |-> HasKey(cache_frame[t].before, cache_frame[t].key),
     has_key |-> HasKey(after, cache_frame[t].key),
     len_before |-> DictLen(cache_frame[t].before),
     len_after |-> DictLen(after),
     removed |-> Removed(cache_frame[t].before, after),
     written |-> cache_written[cache_frame[t].key],
     expected |->
         IF cache_frame[t].op = "get"
         THEN cache_get(seq_cache, cache_frame[t].key, now).result
         ELSE PyNone]

Forget(written, keys) ==
    [k \in CacheKeys |-> IF k \in keys THEN NoWrite ELSE written[k]]

\* ------------------------------------------------------ cache_put
\* Lines 109-110: the call and its key.
PutCall(t) ==
    /\ cache_pc[t] = "idle"
    /\ cache_calls < MaxCalls
    /\ \E prompt \in Prompts, text \in Replies, model \in Models :
           cache_frame' =
               [cache_frame EXCEPT
                    ![t] = [op |-> "put",
                            key |-> _prompt_key(prompt, model),
                            text |-> text,
                            entry |-> PyNone,
                            before |-> <<>>]]
    /\ cache_pc' = [cache_pc EXCEPT ![t] = "put_lock"]
    /\ cache_calls' = cache_calls + 1
    /\ UNCHANGED <<_cache, _cache_lock, now, cache_done, cache_written,
                   seq_cache>>
    /\ UNCHANGED outsideCache

\* Line 111: the lock is taken.
PutAcquire(t) ==
    /\ cache_pc[t] = "put_lock"
    /\ LockAvailable(t)
    /\ _cache_lock' = t
    /\ cache_frame' = [cache_frame EXCEPT ![t].before = _cache]
    /\ cache_pc' = [cache_pc EXCEPT ![t] = "put_check"]
    /\ UNCHANGED <<_cache, now, cache_done, cache_written, seq_cache,
                   cache_calls>>
    /\ UNCHANGED outsideCache

\* Lines 112-115: at capacity, the first key of the dict is deleted.
PutEvict(t) ==
    /\ cache_pc[t] = "put_check"
    /\ _cache' = Evict(_cache)
    /\ cache_written' =
           Forget(cache_written, Removed(_cache, _cache'))
    /\ cache_pc' = [cache_pc EXCEPT ![t] = "put_insert"]
    /\ UNCHANGED <<_cache_lock, now, cache_frame, cache_done, seq_cache,
                   cache_calls>>
    /\ UNCHANGED outsideCache

\* Line 116, and the end of the with block.
PutInsert(t) ==
    /\ cache_pc[t] = "put_insert"
    /\ _cache' = SetItem(_cache, cache_frame[t].key, cache_frame[t].text,
                         now + CACHE_TTL)
    /\ _cache_lock' = "free"
    /\ cache_done' =
           [cache_done EXCEPT ![t] = Observed(t, PyNone, PyNone, _cache')]
    /\ cache_written' =
           [cache_written EXCEPT
                ![cache_frame[t].key] =
                    [text |-> cache_frame[t].text, at |-> now, live |-> TRUE]]
    /\ seq_cache' = cache_put(seq_cache, cache_frame[t].key,
                              cache_frame[t].text, now)
    /\ cache_frame' = [cache_frame EXCEPT ![t] = NoFrame]
    /\ cache_pc' = [cache_pc EXCEPT ![t] = "idle"]
    /\ UNCHANGED <<now, cache_calls>>
    /\ UNCHANGED outsideCache

\* ------------------------------------------------------ cache_get
\* Lines 96-97: the call and its key.
GetCall(t) ==
    /\ cache_pc[t] = "idle"
    /\ cache_calls < MaxCalls
    /\ \E prompt \in Prompts, model \in Models :
           cache_frame' =
               [cache_frame EXCEPT
                    ![t] = [op |-> "get",
                            key |-> _prompt_key(prompt, model),
                            text |-> "",
                            entry |-> PyNone,
                            before |-> <<>>]]
    /\ cache_pc' = [cache_pc EXCEPT ![t] = "get_lock"]
    /\ cache_calls' = cache_calls + 1
    /\ UNCHANGED <<_cache, _cache_lock, now, cache_done, cache_written,
                   seq_cache>>
    /\ UNCHANGED outsideCache

\* Line 98: the lock is taken.
GetAcquire(t) ==
    /\ cache_pc[t] = "get_lock"
    /\ LockAvailable(t)
    /\ _cache_lock' = t
    /\ cache_frame' = [cache_frame EXCEPT ![t].before = _cache]
    /\ cache_pc' = [cache_pc EXCEPT ![t] = "get_lookup"]
    /\ UNCHANGED <<_cache, now, cache_done, cache_written, seq_cache,
                   cache_calls>>
    /\ UNCHANGED outsideCache

\* Lines 99-101.
GetLookup(t) ==
    /\ cache_pc[t] = "get_lookup"
    /\ LET entry == CacheLookup(_cache, cache_frame[t].key) IN
       IF entry = PyNone
       THEN /\ _cache_lock' = "free"
            /\ cache_done' =
                   [cache_done EXCEPT
                        ![t] = Observed(t, PyNone, PyNone, _cache)]
            /\ seq_cache' =
                   cache_get(seq_cache, cache_frame[t].key, now).cache
            /\ cache_frame' = [cache_frame EXCEPT ![t] = NoFrame]
            /\ cache_pc' = [cache_pc EXCEPT ![t] = "idle"]
       ELSE /\ cache_frame' = [cache_frame EXCEPT ![t].entry = entry]
            /\ cache_pc' = [cache_pc EXCEPT ![t] = "get_check"]
            /\ UNCHANGED <<_cache_lock, cache_done, seq_cache>>
    /\ UNCHANGED <<_cache, now, cache_written, cache_calls>>
    /\ UNCHANGED outsideCache

\* Lines 102-106, and the end of the with block.
GetCheck(t) ==
    /\ cache_pc[t] = "get_check"
    /\ LET entry == cache_frame[t].entry IN
       IF Expired(now, entry.exp)
       THEN /\ _cache' = DelItem(_cache, cache_frame[t].key)
            /\ cache_done' =
                   [cache_done EXCEPT
                        ![t] = Observed(t, PyNone, entry, _cache')]
       ELSE /\ _cache' = _cache
            /\ cache_done' =
                   [cache_done EXCEPT
                        ![t] = Observed(t, PyStr(entry.text), entry, _cache)]
    /\ _cache_lock' = "free"
    /\ seq_cache' = cache_get(seq_cache, cache_frame[t].key, now).cache
    /\ cache_frame' = [cache_frame EXCEPT ![t] = NoFrame]
    /\ cache_pc' = [cache_pc EXCEPT ![t] = "idle"]
    /\ UNCHANGED <<now, cache_written, cache_calls>>
    /\ UNCHANGED outsideCache

\* ------------------------------------------------------ time.time()
Tick ==
    /\ \E clock \in ClockValues : clock > now /\ now' = clock
    /\ UNCHANGED <<_cache, _cache_lock, cache_pc, cache_frame, cache_done,
                   cache_written, seq_cache, cache_calls>>
    /\ UNCHANGED outsideCache

CacheNext ==
    \/ \E t \in Threads : PutCall(t)
    \/ \E t \in Threads : PutAcquire(t)
    \/ \E t \in Threads : PutEvict(t)
    \/ \E t \in Threads : PutInsert(t)
    \/ \E t \in Threads : GetCall(t)
    \/ \E t \in Threads : GetAcquire(t)
    \/ \E t \in Threads : GetLookup(t)
    \/ \E t \in Threads : GetCheck(t)
    \/ Tick

InitCache ==
    /\ CacheInit
    /\ ExecutorIdle /\ RetryIdle /\ CooldownIdle /\ CallersIdle /\ SessionIdle

SpecCache == InitCache /\ [][CacheNext]_vars

\* =====================================================================
\* Properties of the response cache
\* =====================================================================
CacheDone(t, op) == cache_done[t].op = op

\* C16: whatever cache_get and cache_put calls the threads have made, and
\* however their steps interleave, the cache holds at most 300 entries.
C16_AtMostCacheMaxEntries == DictLen(_cache) <= 300

\* C16 witness: a cache_put that found 300 entries has ended and the cache
\* holds 300 entries.
C16_Witness ==
    /\ DictLen(_cache) = 300
    /\ \E t \in Threads : CacheDone(t, "put") /\ cache_done[t].len_before = 300

\* C17: a cache_put of an absent key that finds exactly 300 entries does not
\* raise, removes exactly one of them and leaves exactly 300 entries, the
\* new key among them; a cache_put that finds fewer than 300 entries
\* removes nothing.
C17_PutAtCapacityEvictsOne ==
    \A t \in Threads :
        CacheDone(t, "put") =>
            LET d == cache_done[t] IN
            /\ (~d.had_key /\ d.len_before = 300) =>
                   /\ ~d.raised
                   /\ Cardinality(d.removed) = 1
                   /\ d.key \notin d.removed
                   /\ d.len_after = 300
                   /\ d.has_key
            /\ d.len_before < 300 => d.removed = {}

\* C17 witness: a cache_put of an absent key that found 300 entries has
\* ended.
C17_Witness ==
    \E t \in Threads :
        /\ CacheDone(t, "put")
        /\ ~cache_done[t].had_key
        /\ cache_done[t].len_before = 300

\* C18: while the entry written by the last cache_put of a key has been
\* neither evicted nor overwritten, a cache_get of the key returns the text
\* written at every clock value up to the put time plus 90 s, and absent at
\* every later clock value.
C18_RoundTrip ==
    \A t \in Threads :
        (CacheDone(t, "get") /\ cache_done[t].written.live) =>
            LET d == cache_done[t] IN
            /\ d.at <= d.written.at + 90 => d.result = PyStr(d.written.text)
            /\ d.at > d.written.at + 90 => d.result = PyNone

\* C18 witness: a cache_get made exactly 90 s after the cache_put of its key
\* has returned the text.
C18_Witness ==
    \E t \in Threads :
        /\ CacheDone(t, "get")
        /\ cache_done[t].written.live
        /\ cache_done[t].written.at = 0
        /\ cache_done[t].at = 90
        /\ cache_done[t].result = PyStr("X")

\* C19: a cache_get that finds the entry of its key expired deletes exactly
\* that entry and returns absent; a key leaves the cache only in such a
\* step or in the eviction step of a cache_put that finds the cache at
\* capacity, and that step removes one key whether or not entries are
\* expired, so expired entries stay stored and count.
C19_ExpiryIsLazy ==
    /\ [](\A t \in Threads :
              (/\ CacheDone(t, "get")
               /\ cache_done[t].entry # PyNone
               /\ cache_done[t].at > cache_done[t].entry.exp) =>
                  /\ cache_done[t].removed = {cache_done[t].key}
                  /\ cache_done[t].len_after = cache_done[t].len_before - 1
                  /\ cache_done[t].result = PyNone)
    /\ [][/\ _cache' # _cache /\ Removed(_cache, _cache') # {} =>
               \E t \in Threads :
                   \/ /\ cache_pc[t] = "get_check"
                      /\ cache_pc'[t] = "idle"
                      /\ now > cache_frame[t].entry.exp
                      /\ Removed(_cache, _cache') = {cache_frame[t].key}
                   \/ /\ cache_pc[t] = "put_check"
                      /\ cache_pc'[t] = "put_insert"
                      /\ DictLen(_cache) >= 300
                      /\ Cardinality(Removed(_cache, _cache')) = 1
          /\ \A t \in Threads :
                 (/\ cache_pc[t] = "put_check"
                  /\ cache_pc'[t] = "put_insert"
                  /\ DictLen(_cache) >= 300) =>
                     DictLen(_cache') = DictLen(_cache) - 1]_vars

\* C19 witness: a cache_get has deleted the expired entry of its key while
\* the 299 other expired entries are still stored.
C19_Witness ==
    \E t \in Threads :
        /\ CacheDone(t, "get")
        /\ cache_done[t].entry # PyNone
        /\ cache_done[t].at > cache_done[t].entry.exp
        /\ cache_done[t].len_before = 300
        /\ _cache = <<Run(1, 1), Run(3, 300)>>
        /\ now > FillerExpiry

\* C20: at most one thread is between taking and releasing the lock; when
\* no call is under way the cache is what running the finished calls one
\* by one, in the order they ended, gives; every call returns what it
\* returns in that order, and removes at most one key.
C20_CacheCallsAreAtomic ==
    /\ Cardinality({t \in Threads :
                       cache_pc[t] \notin {"idle", "put_lock", "get_lock"}})
           <= 1
    /\ (\A t \in Threads : cache_pc[t] \in {"idle", "put_lock", "get_lock"})
           => _cache = seq_cache
    /\ \A t \in Threads :
           cache_done[t].op # "none" =>
               /\ cache_done[t].result = cache_done[t].expected
               /\ Cardinality(cache_done[t].removed) <= 1

\* C20 witness: a thread waits for the lock in cache_put while the other
\* holds it inside a cache_put that found the cache at capacity.
C20_Witness ==
    \E t, u \in Threads :
        /\ cache_pc[t] = "put_insert"
        /\ DictLen(cache_frame[t].before) = 300
        /\ cache_pc[u] = "put_lock"
        /\ _cache_lock = t

\* ---------------------------------------------------------------------
\* Eviction order and the frames of cache_put and cache_get
\* ---------------------------------------------------------------------
\* The expiry times of the entries of a dict, and the smallest of them.
Expiries(cache) ==
    { IF IsRun(cache[i]) THEN FillerExpiry ELSE cache[i].exp :
          i \in DOMAIN cache }
MinExpiry(cache) ==
    CHOOSE e \in Expiries(cache) : \A other \in Expiries(cache) : e <= other

\* The key of the first item of a dict.
FirstKey(cache) ==
    IF IsRun(cache[1]) THEN FillerKey(cache[1].from) ELSE cache[1].key

\* A cache_put of thread t has passed the capacity check of a full dict.
PutHasEvicted(t) ==
    /\ cache_pc[t] = "put_insert"
    /\ DictLen(cache_frame[t].before) >= CACHE_MAX

C28_OverwriteKeepsTheKeys ==
    \A t \in Threads :
        (CacheDone(t, "put") /\ cache_done[t].had_key) =>
            /\ cache_done[t].removed = {}
            /\ cache_done[t].len_after = cache_done[t].len_before

\* The entry of a key in a dict, None when the key is absent.
EntryOf(cache, key) == CacheLookup(cache, key)

\* Every key but the given one has the same entry in both dicts.
SameElsewhere(before, after, key) ==
    /\ \A k \in CacheKeys \ {key} : EntryOf(after, k) = EntryOf(before, k)
    /\ Indices(after) \ {FillerIndex(key)}
           = Indices(before) \ {FillerIndex(key)}
    /\ OtherKeys(after) \ {key} = OtherKeys(before) \ {key}

\* C29: a step of cache_get that ends the call leaves the whole cache as it
\* was on a hit and on a miss for a key the cache has not, and removes the
\* entry of its key and nothing else when it finds the entry expired; the
\* other steps of the call leave the cache as it was.
C29_GetFrame ==
    [][\A t \in Threads :
           (cache_frame[t].op = "get" /\ cache_pc'[t] # cache_pc[t]) =>
               IF cache_pc'[t] = "idle"
                  /\ EntryOf(_cache, cache_frame[t].key) # PyNone
                  /\ cache_done'[t].result = PyNone
               THEN /\ ~HasKey(_cache', cache_frame[t].key)
                    /\ DictLen(_cache') = DictLen(_cache) - 1
                    /\ SameElsewhere(_cache, _cache', cache_frame[t].key)
               ELSE _cache' = _cache
    ]_vars

\* One cache_get returned the text of a live entry and another removed an
\* expired entry from a dict that holds other entries.
C29_Witness ==
    \E t, u \in Threads :
        /\ CacheDone(t, "get") /\ CacheDone(u, "get")
        /\ cache_done[t].result # PyNone
        /\ cache_done[u].result = PyNone
        /\ cache_done[u].removed = {cache_done[u].key}
        /\ cache_done[u].len_after > 0

\* =====================================================================
\* services/gemini_utils.py: the cooldown guard
\* =====================================================================
MaxChecks == 2     \* check_cooldown calls followed, over all threads

CooldownKeys == {"k", "j"}
MinGaps == {0, 10, 200}
CooldownClockValues == {100, 105, 110, 120}

\* _cooldown.get(key, default)
CooldownGet(cooldown, key, default) ==
    IF \E r \in cooldown : r.key = key
    THEN (CHOOSE r \in cooldown : r.key = key).last
    ELSE default

CooldownSet_OnlyThis(cooldown, key, value) == {[key |-> key, last |-> value]}
CooldownSet_All(cooldown, key, value) ==
    {[key |-> r.key, last |-> value] : r \in cooldown}
        \cup {[key |-> key, last |-> value]}
\* _cooldown[key] = now
CooldownSet(cooldown, key, value) ==
    {r \in cooldown : r.key # key} \cup {[key |-> key, last |-> value]}

Recorded(cooldown) == {r.key : r \in cooldown}

OnCooldown_NoGap(clock, last, min_gap) == FALSE
\* Line 132.
OnCooldown(clock, last, min_gap) == clock - last < min_gap

CooldownLockAvailable_NoLock(t) == TRUE
\* with _cooldown_lock: the thread goes on when the lock is free.
CooldownLockAvailable(t) == _cooldown_lock = "free"

\* Line 129: the call reads the clock before it asks for the lock.
CheckCall(t) ==
    /\ cooldown_pc[t] = "idle"
    /\ cooldown_calls < MaxChecks
    /\ \E key \in CooldownKeys, min_gap \in MinGaps :
           cooldown_frame' =
               [cooldown_frame EXCEPT
                    ![t] = [key |-> key, min_gap |-> min_gap,
                            now |-> cooldown_clock, last |-> 0]]
    /\ cooldown_pc' = [cooldown_pc EXCEPT ![t] = "lock"]
    /\ cooldown_calls' = cooldown_calls + 1
    /\ UNCHANGED <<_cooldown, _cooldown_lock, cooldown_clock, cooldown_done,
                   cooldown_admitted>>
    /\ UNCHANGED outsideCooldown

\* Line 130.
CheckAcquire(t) ==
    /\ cooldown_pc[t] = "lock"
    /\ CooldownLockAvailable(t)
    /\ _cooldown_lock' = t
    /\ cooldown_pc' = [cooldown_pc EXCEPT ![t] = "get"]
    /\ UNCHANGED <<_cooldown, cooldown_clock, cooldown_frame, cooldown_done,
                   cooldown_admitted, cooldown_calls>>
    /\ UNCHANGED outsideCooldown

\* Line 131.
CheckGet(t) ==
    /\ cooldown_pc[t] = "get"
    /\ cooldown_frame' =
           [cooldown_frame EXCEPT
                ![t].last = CooldownGet(_cooldown, cooldown_frame[t].key, 0)]
    /\ cooldown_pc' = [cooldown_pc EXCEPT ![t] = "decide"]
    /\ UNCHANGED <<_cooldown, _cooldown_lock, cooldown_clock, cooldown_done,
                   cooldown_admitted, cooldown_calls>>
    /\ UNCHANGED outsideCooldown

\* What a finished call did, as seen from outside.
Verdict(t, result, after) ==
    [op |-> "check",
     key |-> cooldown_frame[t].key,
     min_gap |-> cooldown_frame[t].min_gap,
     now |-> cooldown_frame[t].now,
     result |-> result,
     before |-> _cooldown,
     after |-> after]

\* Lines 132-135, and the end of the with block.
CheckDecide(t) ==
    /\ cooldown_pc[t] = "decide"
    /\ LET c == cooldown_frame[t] IN
       IF OnCooldown(c.now, c.last, c.min_gap)
       THEN /\ _cooldown' = _cooldown
            /\ cooldown_done' =
                   [cooldown_done EXCEPT ![t] = Verdict(t, FALSE, _cooldown)]
            /\ cooldown_admitted' = cooldown_admitted
       ELSE /\ _cooldown' = CooldownSet(_cooldown, c.key, c.now)
            /\ cooldown_done' =
                   [cooldown_done EXCEPT
                        ![t] = Verdict(t, TRUE,
                                       CooldownSet(_cooldown, c.key, c.now))]
            /\ cooldown_admitted' =
                   Append(cooldown_admitted,
                          [key |-> c.key, min_gap |-> c.min_gap, at |-> c.now])
    /\ _cooldown_lock' = "free"
    /\ cooldown_frame' = [cooldown_frame EXCEPT ![t] = NoCheck]
    /\ cooldown_pc' = [cooldown_pc EXCEPT ![t] = "idle"]
    /\ UNCHANGED <<cooldown_clock, cooldown_calls>>
    /\ UNCHANGED outsideCooldown

\* time.time() does not go back.
CooldownTick ==
    /\ \E clock \in CooldownClockValues :
           clock > cooldown_clock /\ cooldown_clock' = clock
    /\ UNCHANGED <<_cooldown, _cooldown_lock, cooldown_pc, cooldown_frame,
                   cooldown_done, cooldown_admitted, cooldown_calls>>
    /\ UNCHANGED outsideCooldown

CooldownNext ==
    \/ \E t \in Threads : CheckCall(t)
    \/ \E t \in Threads : CheckAcquire(t)
    \/ \E t \in Threads : CheckGet(t)
    \/ \E t \in Threads : CheckDecide(t)
    \/ CooldownTick

CooldownInit ==
    /\ _cooldown = {}
    /\ _cooldown_lock = "free"
    /\ cooldown_clock = 100
    /\ cooldown_pc = [t \in Threads |-> "idle"]
    /\ cooldown_frame = [t \in Threads |-> NoCheck]
    /\ cooldown_done = [t \in Threads |-> NoVerdict]
    /\ cooldown_admitted = <<>>
    /\ cooldown_calls = 0
    /\ ExecutorIdle
    /\ RetryIdle
    /\ CacheIdle
    /\ CallersIdle
    /\ SessionIdle

SpecCooldown == CooldownInit /\ [][CooldownNext]_vars

\* ---------------------------------------------------------------------
\* Claims about the cooldown guard
\* ---------------------------------------------------------------------
CheckDone(t) == cooldown_done[t].op = "check"

\* The records of the keys other than key.
OtherRecords(cooldown, key) == {r \in cooldown : r.key # key}

\* C21: check_cooldown returns True exactly when the key has no record at all
\* or the clock it read is at least min_gap past the key's record; a first
\* call for a key never seen returns True for every clock value and every
\* min_gap >= 0.
C21_TrueIffUnseenOrGapElapsed ==
    \A t \in Threads :
        CheckDone(t) =>
            LET d == cooldown_done[t] IN
            d.result =
                (\/ d.key \notin Recorded(d.before)
                 \/ d.now - CooldownGet(d.before, d.key, 0) >= d.min_gap)

\* C22: a call that returns False leaves the whole cooldown map as it was,
\* a call that returns True changes the record of its own key only, and no
\* other step of a call changes the map.
C22_OnlyOwnRecordChanges ==
    [][
        /\ \A t \in Threads :
               (cooldown_pc[t] = "decide" /\ cooldown_pc'[t] = "idle") =>
                   IF cooldown_done'[t].result
                   THEN /\ OtherRecords(_cooldown', cooldown_done'[t].key)
                               = OtherRecords(_cooldown, cooldown_done'[t].key)
                        /\ [key |-> cooldown_done'[t].key,
                            last |-> cooldown_done'[t].now] \in _cooldown'
                   ELSE _cooldown' = _cooldown
        /\ (\A t \in Threads :
                ~(cooldown_pc[t] = "decide" /\ cooldown_pc'[t] = "idle"))
               => _cooldown' = _cooldown
    ]_vars

\* One thread's call recorded its key in the empty map and returned True, and
\* the other thread's call returned False with that record in the map.
C22_Witness ==
    \E t, u \in Threads :
        /\ CheckDone(t) /\ CheckDone(u)
        /\ cooldown_done[t].result
        /\ cooldown_done[t].before = {}
        /\ cooldown_done[t].after # {}
        /\ ~cooldown_done[u].result
        /\ cooldown_done[u].before # {}
        /\ cooldown_done[u].key # cooldown_done[t].key

\* C23: any two calls for the same key with the same min_gap that both
\* returned True recorded timestamps at least min_gap apart.
C23_AdmittedAreMinGapApart ==
    \A i, j \in 1..Len(cooldown_admitted) :
        (/\ i < j
         /\ cooldown_admitted[i].key = cooldown_admitted[j].key
         /\ cooldown_admitted[i].min_gap = cooldown_admitted[j].min_gap)
            => cooldown_admitted[j].at - cooldown_admitted[i].at
                   >= cooldown_admitted[i].min_gap

\* Two calls for one key with one positive min_gap returned True.
C23_Witness ==
    /\ Len(cooldown_admitted) = 2
    /\ cooldown_admitted[1].key = cooldown_admitted[2].key
    /\ cooldown_admitted[1].min_gap = cooldown_admitted[2].min_gap
    /\ cooldown_admitted[1].min_gap > 0

\* C24: a cooldown record is never deleted: the set of recorded keys only
\* grows.
C24_RecordedKeysOnlyGrow ==
    [][Recorded(_cooldown) \subseteq Recorded(_cooldown')]_vars

\* Both keys are recorded.
C24_Witness == Recorded(_cooldown) = CooldownKeys

\* C30: with a clock that does not go back and min_gap >= 0, the recorded
\* last-call time of a key never decreases, whatever the interleaving of the
\* calls, each of which reads the clock before it has the lock.
C30_RecordedTimeNeverDecreases ==
    [][\A r \in _cooldown :
           \E q \in _cooldown' : q.key = r.key /\ q.last >= r.last]_vars

\* A call decided with a clock value read before the key's present record
\* was written, and a record has moved forward.
C30_Witness ==
    /\ \E t \in Threads :
           /\ CheckDone(t)
           /\ cooldown_done[t].key \in Recorded(cooldown_done[t].before)
           /\ cooldown_done[t].now
                  < CooldownGet(cooldown_done[t].before, cooldown_done[t].key, 0)
    /\ \E r \in _cooldown : r.last > 100

\* =====================================================================
\* services/evaluator.py and services/pair_programmer.py: the callers
\* =====================================================================
MaxEvals == 2      \* calls of evaluate and analyze_next_step followed

\* ------------------------------------------------------ inputs
\* The prompt evaluate formats from a request (lines 129-139), and the model
\* name of line 116.
EvalPrompts == {Prompt(1, 3), Prompt(2, 3)}
EvalModel == "gemini-flash-lite-latest"
RequirementLists == {<<>>, <<"r">>}
SessionLanguages == {"python"}

PyInt(n) == [t |-> "int", n |-> n]
PyList(items) == [t |-> "list", items |-> items]

\* The JSON documents of the replies.
Category(category, score, feedback) ==
    [category |-> category, score |-> score, max_score |-> Missing,
     feedback |-> feedback]
EvalDoc(overall_score, categories) ==
    [t |-> "dict", overall_score |-> overall_score, categories |-> categories]
GoodDoc ==
    EvalDoc(PyInt(85),
            PyList(<<Category(PyStr("Code Quality"), PyInt(15),
                              PyStr("fine"))>>))
EmptyDoc == EvalDoc(Missing, Missing)
NullScoreDoc == EvalDoc(PyNone, Missing)
NoFeedbackDoc ==
    EvalDoc(PyInt(85),
            PyList(<<Category(PyStr("Code Quality"), PyInt(15), Missing)>>))

\* The marks that open and close a block of code in a reply: three
\* backquotes followed by json, and three backquotes.
FenceJson == Ch("fence json")
Fence == Ch("fence")

\* response.text
ResponseTexts ==
    { PyNone,
      PyStr(<<Ch(" "), NL>>),
      PyStr(<<Doc(GoodDoc), NL>>),
      PyStr(<<FenceJson, NL, Doc(GoodDoc), NL, Fence>>),
      PyStr(<<Fence, NL, Doc(EmptyDoc), NL, Fence, NL>>),
      PyStr(Text(<<"x">>)),
      PyStr(<<Doc(PyList(<<>>))>>),
      PyStr(<<Doc(NullScoreDoc)>>),
      PyStr(<<Doc(NoFeedbackDoc)>>) }

\* What the remote service does, call after call: succeeds ok times, is
\* rate limited limited times, and from then on does the same thing.
Succeeds == [kind |-> "ok", value |-> OkValue]
RateLimited == [kind |-> "raise", msg |-> Text(<<"4", "2", "9">>)]
NotFound == [kind |-> "raise", msg |-> Text(<<"4", "0", "4">>)]
ServiceBehaviours ==
    { [k \in 1..(MAX_RETRIES + 2) |->
           IF k <= ok THEN Succeeds
           ELSE IF k <= ok + limited THEN RateLimited
           ELSE last] :
        ok \in 0..1, limited \in 0..(MAX_RETRIES + 1),
        last \in {Succeeds, NotFound} }

\* ------------------------------------------------------ exceptions
ExceptionSubclasses ==
    {"Exception", "JSONDecodeError", "AttributeError", "KeyError",
     "ValidationError", "NameError"}

Catches_ValueError(exc) == exc.cls \in {"JSONDecodeError", "ValidationError"}
\* except Exception as e
Catches(exc) == exc.cls \in ExceptionSubclasses

NoStripMessage == Text(<<"'NoneType' object has no attribute 'strip'">>)
JSONDecodeMessage == Text(<<"Expecting value">>)
KeyErrorMessage(key) == Text(<<"'", key, "'">>)
ValidationMessage(field) == Text(<<"validation error: ", field>>)
NameErrorMessage(name) == Text(<<"name '", name, "' is not defined">>)

\* ------------------------------------------------------ evaluate
\* if cached:
Truthy_NotNone(value) == value # PyNone
Truthy(value) == value # PyNone /\ value.s # <<>>

\* The place of the first of the given tokens in a text, 0 when there is
\* none.
FirstAt(text, toks) ==
    IF \E i \in DOMAIN text : text[i] \in toks
    THEN CHOOSE i \in DOMAIN text :
             /\ text[i] \in toks
             /\ \A j \in 1..(i - 1) : text[j] \notin toks
    ELSE 0

\* text.split(opening)[1].split(fence)[0]
Fenced(text, opening) ==
    LET rest == SubSeq(text, FirstAt(text, {opening}) + 1, Len(text))
        close == FirstAt(rest, {Fence, FenceJson})
    IN  IF close = 0 THEN rest ELSE SubSeq(rest, 1, close - 1)

\* Lines 152-155.
ExtractJson(text) ==
    IF FirstAt(text, {FenceJson}) > 0 THEN Strip(Fenced(text, FenceJson))
    ELSE IF FirstAt(text, {Fence}) > 0 THEN Strip(Fenced(text, Fence))
    ELSE text

Ok(value) == [ok |-> TRUE, value |-> value]
Fails(cls, msg) == [ok |-> FALSE, exc |-> Exc(cls, msg)]

\* CategoryScore(category=c["category"], ...), lines 160-166.
CategoryScore(c) ==
    IF c.category = Missing THEN Fails("KeyError", KeyErrorMessage("category"))
    ELSE IF c.score = Missing THEN Fails("KeyError", KeyErrorMessage("score"))
    ELSE IF c.feedback = Missing
    THEN Fails("KeyError", KeyErrorMessage("feedback"))
    ELSE IF c.score.t # "int"
    THEN Fails("ValidationError", ValidationMessage("score"))
    ELSE Ok([category |-> c.category.s,
             score |-> c.score.n,
             max_score |-> IF c.max_score = Missing THEN 20
                           ELSE c.max_score.n,
             feedback |-> c.feedback])

\* Lines 159-168: the scores of the categories, or the first exception.
RECURSIVE CategoryScores(_)
CategoryScores(cs) ==
    IF cs = <<>> THEN Ok(<<>>)
    ELSE LET first == CategoryScore(Head(cs)) IN
         IF ~first.ok THEN first
         ELSE LET rest == CategoryScores(Tail(cs)) IN
              IF ~rest.ok THEN rest
              ELSE Ok(<<first.value>> \o rest.value)

ReactEvaluationResponse(overall_score, categories, unmet, is_fallback) ==
    [t |-> "ReactEvaluationResponse",
     overall_score |-> overall_score,
     categories |-> categories,
     requirements_unmet |-> unmet,
     fallback |-> is_fallback]

\* Lines 157-179: the response built from the text, or the exception raised
\* on the way.
Parse(text) ==
    LET loaded == JsonLoads(ExtractJson(text)) IN
    IF ~loaded.ok THEN Fails("JSONDecodeError", JSONDecodeMessage)
    ELSE LET data == loaded.v IN
         IF data.t # "dict"
         THEN Fails("AttributeError", NoGetMessage(data))
         ELSE LET categories ==
                      CategoryScores(IF data.categories = Missing THEN <<>>
                                     ELSE data.categories.items)
              IN  IF ~categories.ok THEN categories
                  ELSE IF data.overall_score = Missing
                  THEN Ok(ReactEvaluationResponse(0, categories.value, <<>>, FALSE))
                  ELSE IF data.overall_score.t # "int"
                  THEN Fails("ValidationError",
                             ValidationMessage("overall_score"))
                  ELSE Ok(ReactEvaluationResponse(data.overall_score.n, categories.value,
                                   <<>>, FALSE))

\* Lines 184-201.
EvaluateFallback(exc, requirements) ==
    ReactEvaluationResponse(0,
             <<[category |-> "Error", score |-> 0, max_score |-> 100,
                feedback |->
                    PyStr(Text(<<"Evaluation failed: ">>) \o exc.msg)]>>,
             requirements, TRUE)

\* How a call of evaluate ends when the try block has come to the given
\* end: a response, the fallback of the handler, or the exception when the
\* handler does not take it.
Ending(tried, requirements) ==
    IF tried.ok THEN [raised |-> NoExc, response |-> tried.value]
    ELSE IF Catches(tried.exc)
    THEN [raised |-> NoExc,
          response |-> EvaluateFallback(tried.exc, requirements)]
    ELSE [raised |-> tried.exc, response |-> NoResponse]

\* What a finished call did, as seen from outside.
Returns(fn, ending, cached, remote, text, put, failure, before, after) ==
    [fn |-> fn,
     raised |-> ending.raised,
     response |-> ending.response,
     cached |-> cached,          \* what cache_get returned
     remote |-> remote,          \* what the retried remote call did
     text |-> text,              \* response.text
     put |-> put,                \* cache_put was executed
     failure |-> failure,        \* the exception of the try block
     before |-> before,          \* _cache when the call began
     after |-> after]            \* _cache when it returned

EvalKey(prompt) == _prompt_key(prompt, EvalModel)

\* Lines 128-147: the prompt, the lookup, and with a cached text the rest
\* of the call; without one, the call of _generate is reached.
EvaluateCall ==
    /\ caller_pc = "idle"
    /\ caller_calls < MaxEvals
    /\ \E prompt \in EvalPrompts, requirements \in RequirementLists :
           LET got == cache_get(_cache, EvalKey(prompt), now) IN
           /\ _cache' = got.cache
           /\ IF Truthy(got.result)
              THEN LET tried == Parse(got.result.s) IN
                   /\ caller_done' =
                          Returns("evaluate", Ending(tried, requirements),
                                 got.result, NoResult, PyNone, FALSE,
                                 IF tried.ok THEN NoExc ELSE tried.exc,
                                 _cache, got.cache)
                   /\ caller_frame' = NoLocals
                   /\ caller_pc' = "idle"
              ELSE /\ caller_frame' =
                          [fn |-> "evaluate", prompt |-> prompt,
                           requirements |-> requirements,
                           cached |-> got.result, before |-> _cache]
                   /\ caller_pc' = "generate"
                   /\ UNCHANGED caller_done
    /\ caller_calls' = caller_calls + 1
    /\ UNCHANGED <<_cache_lock, now, cache_pc, cache_frame, cache_done,
                   cache_written, seq_cache, cache_calls>>
    /\ UNCHANGED <<executorVars, retryVars, cooldownVars, sessionVars>>

\* Line 147: the decorated _generate is called.
EvaluateGenerate ==
    /\ caller_pc = "generate"
    /\ AsyncCall

\* Lines 147-201: the decorated call is over.  Its exception goes to the
\* handler; its response is stripped, put in the cache and parsed.
EvaluateResume ==
    /\ caller_pc = "generate"
    /\ retry_pc["async"] = "done"
    /\ LET remote == retry_result["async"]
           key == EvalKey(caller_frame.prompt)
           requirements == caller_frame.requirements
       IN  IF remote.how = "raised"
           THEN /\ caller_done' =
                       Returns("evaluate",
                              Ending(Fails(remote.exc.cls, remote.exc.msg),
                                     requirements),
                              caller_frame.cached, remote, PyNone, FALSE,
                              Exc(remote.exc.cls, remote.exc.msg),
                              caller_frame.before, _cache)
                /\ _cache' = _cache
           ELSE \E text \in ResponseTexts :
                    IF text = PyNone
                    THEN /\ caller_done' =
                                Returns("evaluate",
                                       Ending(Fails("AttributeError",
                                                    NoStripMessage),
                                              requirements),
                                       caller_frame.cached, remote, text,
                                       FALSE,
                                       Exc("AttributeError", NoStripMessage),
                                       caller_frame.before, _cache)
                         /\ _cache' = _cache
                    ELSE LET stripped == Strip(text.s)
                             tried == Parse(stripped)
                             after == cache_put(_cache, key, stripped, now)
                         IN  /\ caller_done' =
                                    Returns("evaluate",
                                           Ending(tried, requirements),
                                           caller_frame.cached, remote, text,
                                           TRUE,
                                           IF tried.ok THEN NoExc
                                           ELSE tried.exc,
                                           caller_frame.before, after)
                             /\ _cache' = after
    /\ caller_frame' = NoLocals
    /\ caller_pc' = "idle"
    /\ retry_pc' = [retry_pc EXCEPT !["async"] = "idle"]
    /\ retry_result' = [retry_result EXCEPT !["async"] = NoResult]
    /\ UNCHANGED caller_calls
    /\ UNCHANGED <<op_outcomes, retry_attempt, retry_last_exc, retry_calls,
                   retry_slept>>
    /\ UNCHANGED <<_cache_lock, now, cache_pc, cache_frame, cache_done,
                   cache_written, seq_cache, cache_calls>>
    /\ UNCHANGED <<executorVars, cooldownVars, sessionVars>>

\* ------------------------------------------------------ analyze_next_step
\* The names analyze_next_step can read at line 165: its parameters and
\* locals, and the names of the module.
AnalyzeNames ==
    {"self", "session", "prompt",
     "os", "asyncio", "json", "AsyncGenerator", "load_dotenv", "genai",
     "BaseModel", "gemini_retry_sync", "_is_rate_error", "MAX_RETRIES",
     "INITIAL_DELAY", "client", "_make_client", "CodeSuggestion",
     "PairProgrammerSession", "PairProgrammer"}

\* The arguments of the call at line 165.
AnalyzeArguments == <<"prompt", "api_key">>

CodeSuggestion(suggestion, explanation, language, is_fallback) ==
    [t |-> "CodeSuggestion",
     suggestion |-> suggestion,
     explanation |-> explanation,
     language |-> language,
     fallback |-> is_fallback]

\* Lines 176-181.
AnalyzeFallback(exc, language) ==
    CodeSuggestion(Text(<<"Unable to generate suggestion">>), exc.msg, language,
               TRUE)

\* Lines 150-181.  The arguments of the call at line 165 are evaluated
\* before _analyze_sync is entered: a name that is not defined raises
\* NameError inside the try block.
AnalyzeNextStep ==
    /\ caller_pc = "idle"
    /\ caller_calls < MaxEvals
    /\ \E language \in SessionLanguages :
           LET undefined ==
                   {i \in DOMAIN AnalyzeArguments :
                        AnalyzeArguments[i] \notin AnalyzeNames}
               name == AnalyzeArguments[CHOOSE i \in undefined :
                                            \A j \in undefined : i <= j]
               exc == Exc("NameError", NameErrorMessage(name))
           IN  /\ undefined # {}
               /\ caller_done' =
                      Returns("analyze_next_step",
                             IF Catches(exc)
                             THEN [raised |-> NoExc,
                                   response |->
                                       AnalyzeFallback(exc, language)]
                             ELSE [raised |-> exc, response |-> NoResponse],
                             PyNone, NoResult, PyNone, FALSE, exc,
                             _cache, _cache)
    /\ caller_calls' = caller_calls + 1
    /\ UNCHANGED <<caller_pc, caller_frame>>
    /\ UNCHANGED <<executorVars, retryVars, cacheVars, cooldownVars,
                   sessionVars>>

CallersNext ==
    \/ EvaluateCall
    \/ EvaluateGenerate
    \/ AsyncAttempt
    \/ AsyncWake
    \/ EvaluateResume
    \/ AnalyzeNextStep
    \/ Tick

CallersInit ==
    /\ op_outcomes \in ServiceBehaviours
    /\ retry_pc = [w \in Wrappers |-> "idle"]
    /\ retry_attempt = [w \in Wrappers |-> 0]
    /\ retry_last_exc = [w \in Wrappers |-> PyNone]
    /\ retry_calls = [w \in Wrappers |-> 0]
    /\ retry_slept = [w \in Wrappers |-> <<>>]
    /\ retry_result = [w \in Wrappers |-> NoResult]
    /\ CacheIdle
    /\ CallersIdle
    /\ ExecutorIdle
    /\ CooldownIdle
    /\ SessionIdle

SpecCallers == CallersInit /\ [][CallersNext]_vars

\* ---------------------------------------------------------------------
\* Claims about the callers
\* ---------------------------------------------------------------------
Evaluated == caller_done.fn = "evaluate"
Analyzed == caller_done.fn = "analyze_next_step"

\* C25: in evaluate, cache_put is executed only when cache_get returned no
\* value and the retried remote call then returned without raising; when
\* the remote call fails, the cache is left as it was.
C25_PutOnlyOnMissAfterSuccess ==
    Evaluated =>
        /\ caller_done.put =>
               /\ caller_done.cached = PyNone
               /\ caller_done.remote.how = "returned"
        /\ caller_done.remote.how = "raised" =>
               caller_done.after = caller_done.before

\* C26: evaluate and analyze_next_step never raise; when the remote call
\* fails, at once or with its retries used up, or the reply cannot be
\* parsed, evaluate returns the response with overall_score 0 and the one
\* category "Error", and analyze_next_step the suggestion "Unable to
\* generate suggestion".
C26_CallersNeverRaise ==
    /\ (Evaluated \/ Analyzed) => caller_done.raised = NoExc
    /\ (Evaluated /\ (caller_done.remote.how = "raised"
                      \/ caller_done.failure # NoExc)) =>
           /\ caller_done.response.t = "ReactEvaluationResponse"
           /\ caller_done.response.overall_score = 0
           /\ Len(caller_done.response.categories) = 1
           /\ caller_done.response.categories[1].category = "Error"
    /\ (Analyzed /\ caller_done.failure # NoExc) =>
           /\ caller_done.response.t = "CodeSuggestion"
           /\ caller_done.response.suggestion
                  = Text(<<"Unable to generate suggestion">>)

\* A call of evaluate whose remote call was rate limited at every one of its
\* MAX_RETRIES + 1 attempts has returned the fallback response.
C26_Witness ==
    /\ Evaluated
    /\ caller_done.remote.how = "raised"
    /\ IsRateError(caller_done.remote.exc)
    /\ Len(retry_slept["async"]) >= MAX_RETRIES
    /\ caller_done.raised = NoExc
    /\ caller_done.response.overall_score = 0
    /\ caller_done.response.categories[1].category = "Error"

\* =====================================================================
\* Further properties of the executor
\* =====================================================================
\* The call of _run_subprocess that spawned the last child is still going.
RunGoesOn == pc \in {"wait", "reap"}

\* C31: whenever _run_subprocess has returned or raised after spawning a
\* child process (normal end, timeout, cancellation of the awaiting task, any
\* other exception), that child has ended and has been reaped: no child
\* process outlives the call that spawned it.
C31_NoChildOutlivesItsCall ==
    \A i \in DOMAIN children :
        (i < Len(children) \/ ~RunGoesOn) => children[i].state = "reaped"

\* The text is the success line of the harness, alone.
IsSuccessLine(out) ==
    LET line == Strip(out) IN
    /\ Len(line) = 1
    /\ IsDoc(line[1])
    /\ line[1].json.t = "dict"
    /\ line[1].json.error = PyNone
    /\ line[1].json.output # Missing
    /\ line[1].json.output.t = "str"

\* C32: when the child of a test case wrote to stdout the success line of
\* the harness and nothing else, and its output, trimmed, is the expected
\* output, trimmed, the test result has passed = true, whatever the child
\* wrote to stderr.
C32_StderrDoesNotMatter ==
    [][(/\ pc = "wait"
        /\ pc' = "loop"
        /\ ProcessIs("exited")
        /\ IsSuccessLine(stdout)
        /\ Strip(Strip(stdout)[1].json.output.s)
               = Strip(test_case.expected_output))
           => test_results'[Len(test_results')].passed
    ]_vars

\* =====================================================================
\* Further properties of analyze_next_step
\* =====================================================================
\* The text holds a JSON object; the first of them.
HoldsObject(text) ==
    text # PyNone
        /\ \E i \in DOMAIN text.s : IsDoc(text.s[i]) /\ text.s[i].json.t = "dict"
FirstObject(text) ==
    text.s[CHOOSE i \in DOMAIN text.s :
               /\ IsDoc(text.s[i]) /\ text.s[i].json.t = "dict"
               /\ \A j \in 1..(i - 1) : ~IsDoc(text.s[j])].json

ParsingFailures == {"JSONDecodeError", "AttributeError", "KeyError"}

\* C35: when the remote call of analyze_next_step succeeds and its text
\* holds a JSON object, the CodeSuggestion returned carries the suggestion
\* and the explanation of that object; the suggestion "Unable to generate
\* suggestion" is returned only when the remote call, after its retries, or
\* the parsing has failed.
C35_FallbackOnlyOnFailure ==
    Analyzed =>
        /\ (caller_done.remote.how = "returned"
            /\ HoldsObject(caller_done.text)) =>
               /\ caller_done.response.suggestion
                      = FirstObject(caller_done.text).suggestion
               /\ caller_done.response.explanation
                      = FirstObject(caller_done.text).explanation
        /\ caller_done.response.suggestion
               = Text(<<"Unable to generate suggestion">>) =>
               \/ caller_done.remote.how = "raised"
               \/ caller_done.failure.cls \in ParsingFailures

\* =====================================================================
\* services/pair_programmer.py: start_session
\* =====================================================================
MaxChunks == 2     \* chunks the service streams during one session

\* chunk.text: nothing, prose, a JSON object, braces around no JSON.
SuggestionDoc ==
    [t |-> "dict", suggestion |-> PyStr(Text(<<"s">>)),
     explanation |-> PyStr(Text(<<"e">>))]
ChunkTexts ==
    { <<>>,
      Text(<<"a">>),
      <<Doc(SuggestionDoc)>>,
      Text(<<"{", "x", "}">>) }

\* What generate_content_stream, or the iteration of its response, raises.
StreamErrors ==
    { Exc("Exception", Text(<<"4", "2", "9">>)),
      Exc("Exception", Text(<<"4", "0", "4">>)),
      Exc("TimeoutError", Text(<<"timed out">>)) }

\* The items of the stream: a piece of text, or json.dumps of an event.
TextItem(text) == [t |-> "text", s |-> text]
Event(type, body) == [t |-> "event", type |-> type, body |-> body]

\* Line 82.
SessionDelay(attempt) == INITIAL_DELAY * Pow2(attempt - 1)

\* Line 131.
SessionShouldRetry(exc, attempt) == IsRateError(exc) /\ attempt < MAX_RETRIES

\* re.search(r'\{.*\}', full_response, re.DOTALL): from the first opening
\* brace to the last closing one; None without such a pair.
Opens(tok) == tok = Ch("{") \/ (IsDoc(tok) /\ tok.json.t = "dict")
Closes(tok) == tok = Ch("}") \/ (IsDoc(tok) /\ tok.json.t = "dict")
JsonMatch(text) ==
    LET opening == {i \in DOMAIN text : Opens(text[i])}
        closing == {i \in DOMAIN text : Closes(text[i])}
    IN  IF opening = {} \/ closing = {} THEN PyNone
        ELSE LET first == CHOOSE i \in opening : \A j \in opening : i <= j
                 last == CHOOSE i \in closing : \A j \in closing : i >= j
             IN  IF first <= last
                 THEN PyStr(SubSeq(text, first, last))
                 ELSE PyNone

\* Lines 101-121: what is yielded once the response has been read through.
FinalItems(full_response, language) ==
    LET json_match == JsonMatch(full_response) IN
    IF json_match = PyNone THEN <<>>
    ELSE IF JsonLoads(json_match.s).ok
    THEN <<Event("suggestion_complete", JsonLoads(json_match.s).v)>>
    ELSE <<Event("suggestion_complete",
                 [t |-> "dict", suggestion |-> PyStr(full_response),
                  explanation |->
                      PyStr(Text(<<"Pair programming suggestion">>)),
                  language |-> language])>>

TimeoutEvent ==
    Event("error",
          Text(<<"Session timeout - pair programming window closed">>))
ErrorEvent(exc) ==
    Event("error", Text(<<"Pair programming error: ">>) \o exc.msg)
RateLimitEvent(last_exc) ==
    Event("error", Text(<<"Rate limit: ">>) \o last_exc.msg)

\* Lines 51-78: start_session is called and its body begins.
SessionCall ==
    /\ session_pc = "idle"
    /\ \E language \in SessionLanguages :
           session_frame' =
               [language |-> language, attempt |-> 0, full_response |-> <<>>,
                last_exc |-> PyNone]
    /\ session_pc' = "request"
    /\ UNCHANGED <<session_stream, session_log>>
    /\ UNCHANGED outsideSession

\* Lines 81-87: before every attempt but the first, the generator sleeps.
SessionWake ==
    /\ session_pc = "sleep"
    /\ session_log' =
           [session_log EXCEPT
                !.slept = Append(@, SessionDelay(session_frame.attempt))]
    /\ session_pc' = "request"
    /\ UNCHANGED <<session_frame, session_stream>>
    /\ UNCHANGED outsideSession

\* Lines 124-138 and 80, 140: the exception exc has left the try block.
Handled(exc, log) ==
    IF exc.cls = "TimeoutError"
    THEN /\ session_stream' = Append(session_stream, TimeoutEvent)
         /\ session_log' = [log EXCEPT !.ended = "error"]
         /\ session_pc' = "done"
         /\ UNCHANGED session_frame
    ELSE IF SessionShouldRetry(exc, session_frame.attempt)
    THEN /\ session_frame' =
                [session_frame EXCEPT !.last_exc = exc, !.attempt = @ + 1]
         /\ IF session_frame.attempt + 1 <= MAX_RETRIES
            THEN /\ session_pc' = "sleep"
                 /\ session_log' = log
                 /\ UNCHANGED session_stream
            ELSE /\ session_stream' =
                        Append(session_stream, RateLimitEvent(exc))
                 /\ session_log' = [log EXCEPT !.ended = "error"]
                 /\ session_pc' = "done"
    ELSE /\ session_stream' = Append(session_stream, ErrorEvent(exc))
         /\ session_log' = [log EXCEPT !.ended = "error"]
         /\ session_pc' = "done"
         /\ UNCHANGED session_frame

\* Lines 88-93: generate_content_stream returns the response or raises.
SessionRequest ==
    /\ session_pc = "request"
    /\ LET log == [session_log EXCEPT !.requests = @ + 1, !.text = <<>>] IN
       \/ /\ session_pc' = "stream"
          /\ session_log' = log
          /\ UNCHANGED <<session_frame, session_stream>>
       \/ \E exc \in StreamErrors : Handled(exc, log)
    /\ UNCHANGED outsideSession

\* Lines 95-99: the response gives one more chunk; its text, when there is
\* some, is added to full_response and yielded to the consumer.
SessionChunk ==
    /\ session_pc = "stream"
    /\ session_log.chunks < MaxChunks
    /\ \E text \in ChunkTexts :
           IF text # <<>>
           THEN /\ session_frame' =
                       [session_frame EXCEPT !.full_response = @ \o text]
                /\ session_stream' = Append(session_stream, TextItem(text))
                /\ session_log' =
                       [session_log EXCEPT !.chunks = @ + 1,
                                           !.text = @ \o text]
           ELSE /\ session_log' = [session_log EXCEPT !.chunks = @ + 1]
                /\ UNCHANGED <<session_frame, session_stream>>
    /\ UNCHANGED session_pc
    /\ UNCHANGED outsideSession

\* Line 95: the iteration of the response raises.
SessionStreamRaises ==
    /\ session_pc = "stream"
    /\ \E exc \in StreamErrors : Handled(exc, session_log)
    /\ UNCHANGED outsideSession

\* Lines 95, 101-122: the response is read through; the final event, when
\* there is one, is yielded and the generator returns.
SessionStreamEnds ==
    /\ session_pc = "stream"
    /\ session_stream' =
           session_stream \o FinalItems(session_frame.full_response,
                                        session_frame.language)
    /\ session_log' = [session_log EXCEPT !.ended = "success"]
    /\ session_pc' = "done"
    /\ UNCHANGED session_frame
    /\ UNCHANGED outsideSession

SessionNext ==
    \/ SessionCall
    \/ SessionWake
    \/ SessionRequest
    \/ SessionChunk
    \/ SessionStreamRaises
    \/ SessionStreamEnds

SessionInit ==
    /\ SessionIdle
    /\ ExecutorIdle
    /\ RetryIdle
    /\ CacheIdle
    /\ CooldownIdle
    /\ CallersIdle

SpecSession == SessionInit /\ [][SessionNext]_vars

\* asyncio.sleep returns, the service answers or fails, and the consumer
\* goes on asking for the next item.
SpecSessionFair == SpecSession /\ WF_vars(SessionNext)

\* ---------------------------------------------------------------------
\* Claims about start_session
\* ---------------------------------------------------------------------
SessionOver == session_pc = "done"

Events(stream) == {i \in DOMAIN stream : stream[i].t = "event"}

\* The delays of the first n sleeps: 1 s, 2 s, 4 s.
RECURSIVE Doubling(_)
Doubling(n) == IF n = 0 THEN <<>> ELSE Append(Doubling(n - 1), Pow2(n - 1))

\* The texts of the stream, one after the other.
RECURSIVE Delivered(_)
Delivered(stream) ==
    IF stream = <<>> THEN <<>>
    ELSE (IF Head(stream).t = "text" THEN Head(stream).s ELSE <<>>)
             \o Delivered(Tail(stream))

\* C33: every stream of start_session is finite and ends with exactly one
\* terminal event, "suggestion_complete" on success and "error" on a failure
\* that is not transient or on the 4th transient failure; nothing is yielded
\* after the terminal event; at most 4 attempts are made, with sleeps of 1 s,
\* 2 s and 4 s before the 2nd, 3rd and 4th.
C33_StreamEndsWithOneTerminalEvent ==
    /\ <>SessionOver
    /\ [](SessionOver =>
              /\ Events(session_stream) = {Len(session_stream)}
              /\ session_stream[Len(session_stream)].type
                     = IF session_log.ended = "success"
                       THEN "suggestion_complete"
                       ELSE "error")
    /\ [](Events(session_stream) \subseteq {Len(session_stream)})
    /\ [](/\ session_log.requests <= MAX_RETRIES + 1
          /\ session_log.slept = Doubling(Len(session_log.slept))
          /\ session_pc \in {"stream", "done"} =>
                 Len(session_log.slept) = session_log.requests - 1)

\* C34: the text delivered comes from one attempt: when an attempt that has
\* yielded chunks fails with a transient error and is tried again, the
\* chunks of text yielded, put together, and the full_response of the final
\* event are the text of the attempt that succeeded, and nothing more.
C34_TextOfOneAttempt ==
    (SessionOver /\ session_log.ended = "success") =>
        /\ Delivered(session_stream) = session_log.text
        /\ session_frame.full_response = session_log.text

====
